---- MODULE Spec2Model ----
(***************************************************************************)
(* Model of the HackRF One driver (crates/hackrf-one-rs/src/lib.rs):       *)
(* the atomic Mode field, the start_rx/start_tx/stop_rx/stop_tx/read/write *)
(* operations called by several threads on one shared HackRf, and the      *)
(* device behind the USB transport.  Every atomic access to Mode and every *)
(* blocking USB transfer is one step of the calling thread.                *)
(***************************************************************************)
EXTENDS Integers, Sequences, FiniteSets, TLC

\* ---------------------------------------------------------------- bounds
NumThreads == 2
MaxCalls == 3
MaxFaults == 1

Threads == 1..NumThreads

\* ------------------------------------------------- protocol constants
\* enum Request (lib.rs:28-64), the opcodes used by the modelled operations
SetTransceiverMode == 1
SampleRateSet == 6
BasebandFilterBandwidthSet == 7
SetFreq == 16
AmpEnable == 17
SetLnaGain == 19
SetVgaGain == 20
SetTxvgaGain == 21
AntennaEnable == 23

\* enum TransceiverMode (lib.rs:68-75)
TransceiverOff == 0
TransceiverReceive == 1
TransceiverTransmit == 2

\* enum Mode (lib.rs:79-83)
Modes == {"Idle", "Receive", "Transmit"}

\* bulk endpoints (lib.rs:476, lib.rs:499)
EndpointIn == 129
EndpointOut == 2

\* ------------------------------------------------------------- inputs
\* Config::tx_default / Config::rx_default (lib.rs:110-135), and a Config
\* whose vga_db is odd (rejected by set_vga_gain)
tx_default ==
    [vga_db |-> 0, lna_db |-> 0, txvga_db |-> 40, power_port_enable |-> FALSE,
     antenna_enable |-> FALSE, frequency_hz |-> 908000000,
     sample_rate_hz |-> 2500000, sample_rate_div |-> 1]

rx_default ==
    [vga_db |-> 24, lna_db |-> 0, txvga_db |-> 0, power_port_enable |-> FALSE,
     antenna_enable |-> FALSE, frequency_hz |-> 908000000,
     sample_rate_hz |-> 2500000, sample_rate_div |-> 1]

odd_vga == [rx_default EXCEPT !.vga_db = 25]

\* the Configs a start_rx / start_tx is called with
Configs(o) == IF o = "start_tx" THEN {tx_default, odd_vga}
                                ELSE {rx_default, odd_vga}

\* lengths of the sample buffers handed to read/write
BufLens == {512, 513}

Ops == {"start_rx", "start_tx", "stop_rx", "stop_tx", "read", "write"}
StartOps == {"start_rx", "start_tx"}
StopOps == {"stop_rx", "stop_tx"}
StreamOps == {"read", "write"}

\* what the transport can answer to one transfer
Outcomes == {"ok", "err", "short", "zero"}

VARIABLES
    mode,       \* HackRf.mode, the AtomicMode
    claimed,    \* interface 0 of the device is claimed by the HackRf
    xcvr,       \* device side: value of the last SetTransceiverMode received
    pc,         \* per thread: position in the call it is executing
    op,         \* per thread: the operation called
    cfg,        \* per thread: the Config passed to start_*
    len,        \* per thread: samples.len() passed to read/write
    step,       \* per thread: next transfer of apply_config (1..8)
    io,         \* per thread: transfers issued by the current call, in order
    res,        \* per thread: value returned by the call
    samples,    \* per thread: leading bytes of the caller's buffer that the
                \* read in progress or returned has overwritten
    calls,      \* number of calls made so far
    faults,     \* number of transfers the transport has failed so far
    wins,       \* start_* CAS successes since Mode last left Idle
    modeReqs,   \* SetTransceiverMode(Receive|Transmit) received since then
    armed,      \* direction of the last start_* that returned Ok and has
                \* not been followed by a stop_* that returned Ok
    call,       \* the call of an operation made on its own: its inputs, the
                \* transfers it issued and what it returned
    version,    \* HackRf.version, decoded from the device descriptor by open
    timeout_nanos,  \* HackRf.timeout_nanos, the AtomicU64
    started,    \* direction of the last start_* that won the CAS and has not
                \* been followed by a stop_* that returned Ok
    streamer    \* the HackRfOne adapter built on the driver, if one is: the
                \* call in progress, RxStreamer.stream, rx_config and
                \* tx_config, the calls returned

vars == <<mode, claimed, xcvr, pc, op, cfg, len, step, io, res, samples, calls,
          faults, wins, modeReqs, armed, call, version, timeout_nanos, started, streamer>>

\* the driver used on its own: no HackRfOne adapter is built on it
NoAdapter == [at |-> "none"]

\* the adapter as HackRfOne::open and RxStreamer::new / TxStreamer::new make
\* it: no call made, no stream, the two Configs the defaults of their direction
NoStreamer == [at |-> "idle", who |-> "none", fn |-> "none", stream |-> FALSE,
               log |-> <<>>, rx_config |-> rx_default, tx_config |-> tx_default,
               set |-> "none", sets |-> 0]

\* ------------------------------------------------------------ results
NoRes == [kind |-> "None", required |-> "-", actual |-> "-"]
Ok == [kind |-> "Ok", required |-> "-", actual |-> "-"]
Err(k) == [kind |-> k, required |-> "-", actual |-> "-"]

\* Error::WrongMode { required, actual } (lib.rs:165)
WrongMode(required, actual) ==
    [kind |-> "WrongMode", required |-> required, actual |-> actual]

NoConfig == [vga_db |-> 0, lna_db |-> 0, txvga_db |-> 0,
             power_port_enable |-> FALSE, antenna_enable |-> FALSE,
             frequency_hz |-> 0, sample_rate_hz |-> 0, sample_rate_div |-> 1]

\* ------------------------------------------------------- pure helpers
\* stop_rx comparing Mode with Transmit and stop_tx with Receive
TargetModeStopSwapped(o) ==
    IF o \in {"start_rx", "stop_tx", "read"} THEN "Receive" ELSE "Transmit"

\* the Mode a start_* stores, a stop_* replaces and a read / write requires
TargetMode(o) == IF o \in {"start_rx", "stop_rx", "read"} THEN "Receive" ELSE "Transmit"

\* TransceiverMode::Receive / ::Transmit as u16 (lib.rs:361, lib.rs:396)
TransceiverCode(o) == IF o = "start_rx" THEN TransceiverReceive ELSE TransceiverTransmit

\* compare_exchange replaced by an unconditional swap
CompareExchangeSwap(m, current, new) ==
    [ok |-> TRUE, val |-> new, seen |-> m]

\* compare_exchange reporting the expected instead of the actual value
CompareExchangeSeenExpected(m, current, new) ==
    IF m = current THEN [ok |-> TRUE, val |-> new, seen |-> m]
                   ELSE [ok |-> FALSE, val |-> m, seen |-> current]

\* compare_exchange storing the new value also when the comparison fails
CompareExchangeStoreAlways(m, current, new) ==
    [ok |-> m = current, val |-> new, seen |-> m]

\* AtomicMode::compare_exchange(current, new): Ok(previous) and the new value
\* stored when the field holds `current`, Err(actual) and no store otherwise
CompareExchange(m, current, new) ==
    IF m = current THEN [ok |-> TRUE, val |-> new, seen |-> m]
                   ELSE [ok |-> FALSE, val |-> m, seen |-> m]

\* `required` of the WrongMode returned by a failed stop_* (lib.rs:430-433,
\* lib.rs:456-459)
StopRequired(o) == "Idle"

\* the range checks of set_lna_gain / set_vga_gain / set_txvga_gain
LnaGainOk(gain) == ~(gain > 40)
\* the check of set_vga_gain without the parity
VgaGainOkAnyParity(gain) == ~(gain > 62)

VgaGainOk(gain) == ~(gain > 62 \/ gain % 2 = 1)
TxvgaGainOk(gain) == ~(gain > 47)

\* set_lna_gain sending the gain as it is
LnaIndexUnmasked(gain) == gain

\* gain & !0x07 and gain & !0b1
LnaIndex(gain) == gain - (gain % 8)
VgaIndex(gain) == gain - (gain % 2)

\* ---- f32, as m * 2^e with m below 2^24
\* 2^0 .. 2^30
Pow2Table ==
    <<
      1, 2, 4, 8, 16, 32, 64, 128, 256, 512, 1024, 2048, 4096, 8192, 16384,
      32768, 65536, 131072, 262144, 524288, 1048576, 2097152, 4194304,
      8388608, 16777216, 33554432, 67108864, 134217728, 268435456,
      536870912, 1073741824
    >>

\* 2^n, n in 0..30
Pow2(n) == Pow2Table[n + 1]

\* the number of bits of n, n below 256
BitLen8(n) ==
    CASE n = 0 -> 0 [] n < 2 -> 1 [] n < 4 -> 2 [] n < 8 -> 3 [] n < 16 -> 4
      [] n < 32 -> 5 [] n < 64 -> 6 [] n < 128 -> 7 [] OTHER -> 8

\* the number of bits of n
BitLen(n) ==
    IF n < 65536
    THEN IF n < 256 THEN BitLen8(n) ELSE 8 + BitLen8(n \div 256)
    ELSE IF n < 16777216 THEN 16 + BitLen8(n \div 65536)
         ELSE 24 + BitLen8(n \div 16777216)

\* the f32 nearest to m * 2^e (or, with sticky, to a value just above it),
\* ties to even; a sticky value comes with at least 26 bits in m; a mantissa
\* rounded up to 2^24 = 16777216 becomes 2^23 = 8388608
RoundF32(m, e, sticky) ==
    LET shift == BitLen(m) - 24 IN
    IF shift <= 0 THEN [m |-> m, e |-> e]
    ELSE LET q == m \div Pow2(shift)
             rem == m % Pow2(shift)
             half == Pow2(shift - 1)
             up == rem > half \/ (rem = half /\ (sticky \/ q % 2 = 1))
             q1 == IF up THEN q + 1 ELSE q
         IN IF q1 = 16777216 THEN [m |-> 8388608, e |-> e + shift + 1]
            ELSE [m |-> q1, e |-> e + shift]

\* `n as f32` of a u32 (below 2^31)
U32ToF32(n) == RoundF32(n, 0, FALSE)

\* the literal 0.75
ThreeQuarters == [m |-> 3, e |-> -2]

\* a * b, the product of the mantissas below 2^31
F32Mul(a, b) == RoundF32(a.m * b.m, a.e + b.e, FALSE)

RECURSIVE DivBits(_, _, _, _)
\* the quotient bit by bit until it is exact or has 27 bits (reaches
\* 2^26 = 67108864)
DivBits(q, r, d, k) ==
    IF r = 0 \/ q >= 67108864 THEN [k |-> k, q |-> q, r |-> r]
    ELSE IF 2 * r >= d THEN DivBits(2 * q + 1, 2 * r - d, d, k + 1)
         ELSE DivBits(2 * q, 2 * r, d, k + 1)

\* a / b, b not zero
F32Div(a, b) ==
    LET s == DivBits(a.m \div b.m, a.m % b.m, b.m, 0) IN
    RoundF32(s.q, a.e - b.e - s.k, s.r # 0)

\* `x as u32`: towards zero (results below 2^31)
F32ToU32(x) == IF x.e >= 0 THEN x.m * Pow2(x.e) ELSE x.m \div Pow2(-x.e)

\* the bandwidth set_sample_rate asks for:
\* (0.75 * (hz as f32) / (div as f32)) as u32, div not zero
BasebandBandwidth(hz, div) ==
    F32ToU32(F32Div(F32Mul(ThreeQuarters, U32ToF32(hz)), U32ToF32(div)))

BoolToU16(b) == IF b THEN 1 ELSE 0

\* One transfer as the transport sees it.
Xfer(kind, req, value, index, n, out) ==
    [len |-> n, req |-> req, value |-> value, index |-> index, out |-> out,
     xfer |-> kind]

\* The k-th request of apply_config for Config c: the setters are called in
\* this order, set_sample_rate issuing the last two.
ConfigRequest(k, c) ==
    CASE k = 1 -> [len |-> 1, req |-> SetLnaGain, value |-> 0,
                   index |-> LnaIndex(c.lna_db), xfer |-> "control_in",
                   valid |-> LnaGainOk(c.lna_db)]
      [] k = 2 -> [len |-> 1, req |-> SetVgaGain, value |-> 0,
                   index |-> VgaIndex(c.vga_db), xfer |-> "control_in",
                   valid |-> VgaGainOk(c.vga_db)]
      [] k = 3 -> [len |-> 1, req |-> SetTxvgaGain, value |-> 0,
                   index |-> c.txvga_db, xfer |-> "control_in",
                   valid |-> TxvgaGainOk(c.txvga_db)]
      [] k = 4 -> [len |-> 8, req |-> SetFreq, value |-> 0, index |-> 0,
                   xfer |-> "control_out", valid |-> TRUE]
      [] k = 5 -> [len |-> 0, req |-> AmpEnable,
                   value |-> BoolToU16(c.power_port_enable), index |-> 0,
                   xfer |-> "control_out", valid |-> TRUE]
      [] k = 6 -> [len |-> 0, req |-> AntennaEnable,
                   value |-> BoolToU16(c.antenna_enable), index |-> 0,
                   xfer |-> "control_out", valid |-> TRUE]
      [] k = 7 -> [len |-> 8, req |-> SampleRateSet, value |-> 0, index |-> 0,
                   xfer |-> "control_out", valid |-> TRUE]
      [] k = 8 -> LET hz == BasebandBandwidth(c.sample_rate_hz, c.sample_rate_div) IN
                  [len |-> 0, req |-> BasebandFilterBandwidthSet,
                   value |-> hz % 65536, index |-> hz \div 65536,
                   xfer |-> "control_out", valid |-> TRUE]

ConfigSteps == 8

\* apply_config calling set_vga_gain before set_lna_gain
ConfigRequestVgaFirst(k, c) ==
    ConfigRequest(CASE k = 1 -> 2 [] k = 2 -> 1 [] OTHER -> k, c)

\* The k-th request of apply_config (lib.rs:509-519)
ApplyConfig(k, c) == ConfigRequest(k, c)

\* What the transport can answer to a transfer: an error, a count different
\* from the one expected (not for an empty payload), or success; a one-byte
\* control read that succeeds may carry the byte 0.
PossibleOutcomes(kind, n) ==
    {"ok", "err"} \cup (IF n > 0 THEN {"short"} ELSE {})
                  \cup (IF kind = "control_in" THEN {"zero"} ELSE {})

\* The transport answers `out` to a transfer of thread t; answers other than
\* success are counted.
Answer(kind, n, out) ==
    /\ out \in PossibleOutcomes(kind, n)
    /\ out # "ok" => faults < MaxFaults
    /\ faults' = IF out = "ok" THEN faults ELSE faults + 1

\* read_control / write_control swallowing the error of the transfer
ControlResultOk(out) == Ok

\* read_control / write_control: Ok, or the error of the failed transfer
ControlResult(out) ==
    CASE out = "err" -> Err("Transfer")
      [] out = "short" -> Err("TransferTruncated")
      [] OTHER -> Ok

\* from_bcd reading the two high digits as one hexadecimal byte
from_bcd_hex_major(raw) ==
    <<(raw \div 256) % 256, (raw \div 16) % 16, raw % 16>>

\* UsbVersion::from_bcd(raw), raw = 0xJJMN; the version is <<major, minor,
\* sub_minor>>. major is a u8: 15 + 10 * 15 fits, so the addition cannot wrap.
from_bcd(raw) ==
    LET sub_minor == raw % 16
        raw1 == raw \div 16
        minor == raw1 % 16
        raw2 == raw1 \div 16
        major == raw2 % 16
        raw3 == raw2 \div 16
    IN <<major + ((10 * raw3) % 256), minor, sub_minor>>

\* the argument of from_bcd in reset
ResetMinBcd == 258

\* ------------------------------------------------------------- Init
\* DEFAULT_TIMEOUT_NANOS, Duration::from_millis(500).as_nanos()
DEFAULT_TIMEOUT_NANOS == 500000000

\* open storing another Mode
ModeAtOpenReceive == "Receive"

\* the Mode open stores (lib.rs:245)
ModeAtOpen == "Idle"

\* HackRf::open: interface 0 claimed, Mode Idle, the timeout 500 ms; the
\* device's transceiver off
Opened ==
    /\ mode = ModeAtOpen
    /\ timeout_nanos = DEFAULT_TIMEOUT_NANOS
    /\ claimed = TRUE
    /\ xcvr = TransceiverOff
    /\ pc = [t \in Threads |-> "idle"]
    /\ op = [t \in Threads |-> "none"]
    /\ cfg = [t \in Threads |-> NoConfig]
    /\ len = [t \in Threads |-> 0]
    /\ step = [t \in Threads |-> 0]
    /\ io = [t \in Threads |-> <<>>]
    /\ res = [t \in Threads |-> NoRes]
    /\ calls = 0
    /\ faults = 0
    /\ wins = 0
    /\ modeReqs = 0
    /\ armed = "none"
    /\ started = "none"
    /\ samples = [t \in Threads |-> 0]

\* no operation is called on its own
NoCall == [fn |-> "none"]

\* open of a device whose descriptor carries the version 1.0.2
Init ==
    /\ Opened
    /\ streamer = NoAdapter
    /\ call = NoCall
    /\ version = from_bcd(ResetMinBcd)

\* a call returns r: the thread holds the returned value, the Config and the
\* position in apply_config are gone; a panic ends the thread
Finish(t, o, r) ==
    /\ pc' = [pc EXCEPT ![t] = IF r.kind = "Panic" THEN "panicked" ELSE "done"]
    /\ op' = [op EXCEPT ![t] = o]
    /\ res' = [res EXCEPT ![t] = r]
    /\ cfg' = [cfg EXCEPT ![t] = NoConfig]
    /\ step' = [step EXCEPT ![t] = 0]

\* the call goes on at position p
Goto(t, o, p) ==
    /\ pc' = [pc EXCEPT ![t] = p]
    /\ op' = [op EXCEPT ![t] = o]
    /\ res' = [res EXCEPT ![t] = NoRes]

\* stop_* releasing the interface
InterfaceReleased(c) == FALSE

\* start_* and stop_* neither claim nor release an interface
InterfaceAfterStart(c) == c
InterfaceAfterStop(c) == c

\* thread t makes a new call
Enter(t) ==
    /\ pc[t] = "idle"
    /\ calls < MaxCalls
    /\ calls' = calls + 1

\* ------------------------------------------------------------ actions
\* Thread t calls start_rx / start_tx (o) with Config c: the
\* compare_exchange(Idle, Receive|Transmit) and the early return
StartCas(t, o, c) ==
    /\ Enter(t)
    /\ o \in StartOps
    /\ LET r == CompareExchange(mode, "Idle", TargetMode(o)) IN
        /\ mode' = r.val
        /\ IF r.ok
             THEN /\ Goto(t, o, "config")
                  /\ cfg' = [cfg EXCEPT ![t] = c]
                  /\ step' = [step EXCEPT ![t] = 1]
                  /\ wins' = IF mode = "Idle" THEN 1 ELSE wins + 1
                  /\ started' = TargetMode(o)
                  /\ modeReqs' = IF mode = "Idle" THEN 0 ELSE modeReqs
             ELSE /\ Finish(t, o, WrongMode("Idle", r.seen))
                  /\ UNCHANGED <<wins, modeReqs, started>>
    /\ io' = [io EXCEPT ![t] = <<>>]
    /\ UNCHANGED <<claimed, xcvr, armed, faults, len, samples, call, version, timeout_nanos, streamer>>

\* apply_config: the next setter; `out` is the transport's answer
ConfigStep(t, out) ==
    /\ pc[t] = "config"
    /\ \E q \in {ApplyConfig(step[t], cfg[t])} :
        IF ~q.valid
          THEN /\ Finish(t, op[t], Err("Argument"))
               /\ UNCHANGED <<io, faults>>
          ELSE /\ Answer(q.xfer, q.len, out)
               /\ io' = [io EXCEPT ![t] =
                            Append(@, Xfer(q.xfer, q.req, q.value, q.index, q.len, out))]
               /\ IF out = "ok"
                    THEN /\ step' = [step EXCEPT ![t] = @ + 1]
                         /\ Goto(t, op[t], IF step[t] = ConfigSteps THEN "setmode"
                                                                    ELSE "config")
                         /\ UNCHANGED cfg
                    ELSE Finish(t, op[t], IF out = "zero" THEN Err("Panic")
                                                          ELSE ControlResult(out))
    /\ UNCHANGED <<mode, claimed, xcvr, calls, wins, modeReqs, armed, len, samples, call, version, timeout_nanos, started, streamer>>

\* start_rx / start_tx, the SetTransceiverMode request and the return
SetMode(t, out) ==
    /\ pc[t] = "setmode"
    /\ Answer("control_out", 0, out)
    /\ io' = [io EXCEPT ![t] = Append(@, Xfer("control_out", SetTransceiverMode,
                                              TransceiverCode(op[t]), 0, 0, out))]
    /\ xcvr' = IF out = "ok" THEN TransceiverCode(op[t]) ELSE xcvr
    /\ modeReqs' = IF out = "ok" /\ mode # "Idle" THEN modeReqs + 1 ELSE modeReqs
    /\ armed' = IF out = "ok" THEN TargetMode(op[t]) ELSE armed
    /\ claimed' = InterfaceAfterStart(claimed)
    /\ Finish(t, op[t], ControlResult(out))
    /\ UNCHANGED <<mode, calls, wins, len, samples, call, version, timeout_nanos, started, streamer>>

\* Thread t calls stop_rx / stop_tx (o): write_control submits the
\* SetTransceiverMode(Off) request and the thread waits in block_on until the
\* transport completes it; other threads run meanwhile
StopCall(t, o) ==
    /\ Enter(t)
    /\ o \in StopOps
    /\ Goto(t, o, "off")
    /\ io' = [io EXCEPT ![t] = <<>>]
    /\ UNCHANGED <<cfg, len, step, mode, claimed, xcvr, faults, wins, modeReqs,
                   armed, samples, call, version, timeout_nanos, started, streamer>>

\* stop_* going on to its compare_exchange when the Off request failed
StopOffIgnoringError(t, out) ==
    /\ pc[t] = "off"
    /\ Answer("control_out", 0, out)
    /\ io' = [io EXCEPT ![t] = <<Xfer("control_out", SetTransceiverMode,
                                      TransceiverOff, 0, 0, out)>>]
    /\ xcvr' = IF out = "ok" THEN TransceiverOff ELSE xcvr
    /\ claimed' = InterfaceAfterStop(claimed)
    /\ Goto(t, op[t], "stopcas")
    /\ UNCHANGED <<cfg, len, step, mode, calls, wins, modeReqs, armed, samples,
                   call, version, timeout_nanos, started, streamer>>

\* stop_* going to its compare_exchange without the Off request
StopOffNoRequest(t, out) ==
    /\ pc[t] = "off"
    /\ out = "ok"
    /\ Goto(t, op[t], "stopcas")
    /\ UNCHANGED <<cfg, len, step, io, mode, calls, wins, modeReqs, armed, xcvr,
                   claimed, faults, samples, call, version, timeout_nanos,
                   started, streamer>>

\* stop_rx / stop_tx: the transport completes the SetTransceiverMode(Off)
\* request of thread t with `out`; an error is returned at once
StopOff(t, out) ==
    /\ pc[t] = "off"
    /\ Answer("control_out", 0, out)
    /\ io' = [io EXCEPT ![t] = <<Xfer("control_out", SetTransceiverMode,
                                      TransceiverOff, 0, 0, out)>>]
    /\ xcvr' = IF out = "ok" THEN TransceiverOff ELSE xcvr
    /\ claimed' = InterfaceAfterStop(claimed)
    /\ IF out = "ok"
         THEN /\ Goto(t, op[t], "stopcas")
              /\ UNCHANGED <<cfg, step>>
         ELSE Finish(t, op[t], ControlResult(out))
    /\ UNCHANGED <<mode, calls, wins, modeReqs, armed, len, samples, call,
                   version, timeout_nanos, started, streamer>>

\* stop_rx / stop_tx, the compare_exchange(Receive|Transmit, Idle) and the return
StopCas(t) ==
    /\ pc[t] = "stopcas"
    /\ LET r == CompareExchange(mode, TargetMode(op[t]), "Idle") IN
        /\ mode' = r.val
        /\ armed' = IF r.ok THEN "none" ELSE armed
        /\ started' = IF r.ok THEN "none" ELSE started
        /\ Finish(t, op[t], IF r.ok THEN Ok ELSE WrongMode(StopRequired(op[t]), r.seen))
    /\ UNCHANGED <<claimed, xcvr, io, calls, wins, modeReqs, faults, len, samples, call, version, timeout_nanos, streamer>>

\* ensure_mode with the two fields of the error exchanged
EnsureModeFieldsSwapped(m, expected) ==
    IF m # expected THEN WrongMode(m, expected) ELSE Ok

\* ensure_mode(expected): the load of Mode and the comparison
EnsureMode(m, expected) ==
    IF m # expected THEN WrongMode(expected, m) ELSE Ok

\* read / write without the check of the buffer length
StreamCheckAnyLength(t, o, n) ==
    /\ Enter(t)
    /\ o \in StreamOps
    /\ LET r == EnsureMode(mode, TargetMode(o)) IN
        /\ IF r.kind # "Ok" THEN Finish(t, o, r)
           ELSE /\ Goto(t, o, "bulk")
                /\ UNCHANGED <<cfg, step>>
        /\ len' = [len EXCEPT ![t] = IF r.kind = "Ok" THEN n ELSE 0]
    /\ io' = [io EXCEPT ![t] = <<>>]
    /\ UNCHANGED <<mode, claimed, xcvr, wins, modeReqs, armed, faults, samples, call, version, timeout_nanos, started, streamer>>

\* Thread t calls read / write (o) with a buffer of n bytes: ensure_mode, then
\* the length check; samples.len() is read only once ensure_mode has passed
StreamCheck(t, o, n) ==
    /\ Enter(t)
    /\ o \in StreamOps
    /\ LET r == EnsureMode(mode, TargetMode(o)) IN
        /\ CASE r.kind # "Ok" -> Finish(t, o, r)
             [] r.kind = "Ok" /\ n % 512 # 0 -> Finish(t, o, Err("Panic"))
             [] OTHER -> /\ Goto(t, o, "bulk")
                         /\ UNCHANGED <<cfg, step>>
        /\ len' = [len EXCEPT ![t] = IF r.kind = "Ok" THEN n ELSE 0]
    /\ io' = [io EXCEPT ![t] = <<>>]
    /\ UNCHANGED <<mode, claimed, xcvr, wins, modeReqs, armed, faults, samples, call, version, timeout_nanos, started, streamer>>

\* read / write, the bulk transfer on endpoint 0x81 / 0x02 and the return: a
\* short transfer (here one byte less than asked for) is returned as Ok
Bulk(t, out) ==
    /\ pc[t] = "bulk"
    /\ out \in {"ok", "err", "short"}
    /\ Answer(IF op[t] = "read" THEN "bulk_in" ELSE "bulk_out", len[t], out)
    /\ io' = [io EXCEPT ![t] = Append(@,
                 Xfer(IF op[t] = "read" THEN "bulk_in" ELSE "bulk_out",
                      IF op[t] = "read" THEN EndpointIn ELSE EndpointOut,
                      0, 0, len[t], out))]
    /\ samples' = [samples EXCEPT ![t] =
                       CASE op[t] = "read" /\ out = "ok" -> len[t]
                         [] op[t] = "read" /\ out = "short" -> len[t] - 1
                         [] OTHER -> @]
    /\ len' = [len EXCEPT ![t] = 0]
    /\ Finish(t, op[t], IF out = "err" THEN Err("Transfer") ELSE Ok)
    /\ UNCHANGED <<mode, claimed, xcvr, calls, wins, modeReqs, armed, call, version, timeout_nanos, started, streamer>>

\* the callers of the threads in S take the returned values; the threads are
\* free for their next call
Collect(S) ==
    /\ \A t \in S : pc[t] = "done"
    /\ pc' = [t \in Threads |-> IF t \in S THEN "idle" ELSE pc[t]]
    /\ op' = [t \in Threads |-> IF t \in S THEN "none" ELSE op[t]]
    /\ io' = [t \in Threads |-> IF t \in S THEN <<>> ELSE io[t]]
    /\ res' = [t \in Threads |-> IF t \in S THEN NoRes ELSE res[t]]
    /\ len' = [t \in Threads |-> IF t \in S THEN 0 ELSE len[t]]
    /\ samples' = [t \in Threads |-> IF t \in S THEN 0 ELSE samples[t]]
    /\ UNCHANGED <<mode, claimed, xcvr, cfg, step, calls, faults, wins,
                   modeReqs, armed, call, version, timeout_nanos, started, streamer>>

Return(t) == Collect({t})

\* Any number of threads, any interleaving, any answer of the transport.
Next ==
    \E t \in Threads :
        \/ pc[t] = "idle" /\ \E o \in StartOps : \E c \in Configs(o) : StartCas(t, o, c)
        \/ pc[t] = "config" /\ \E out \in Outcomes : ConfigStep(t, out)
        \/ pc[t] = "setmode" /\ \E out \in Outcomes : SetMode(t, out)
        \/ pc[t] = "idle" /\ \E o \in StopOps : StopCall(t, o)
        \/ pc[t] = "off" /\ \E out \in Outcomes : StopOff(t, out)
        \/ StopCas(t)
        \/ pc[t] = "idle" /\ \E o \in StreamOps, n \in BufLens : StreamCheck(t, o, n)
        \/ pc[t] = "bulk" /\ \E out \in Outcomes : Bulk(t, out)
        \/ Return(t)

Spec == Init /\ [][Next]_vars

\* One thread, the transport answering every transfer with success.
NextSeq ==
    \/ \E o \in StartOps : \E c \in Configs(o) : StartCas(1, o, c)
    \/ ConfigStep(1, "ok")
    \/ SetMode(1, "ok")
    \/ \E o \in StopOps : StopCall(1, o)
    \/ StopOff(1, "ok")
    \/ StopCas(1)
    \/ Return(1)

SpecSeq == Init /\ [][NextSeq]_vars

InCall(t) == pc[t] \in {"config", "setmode", "off", "stopcas", "bulk"}

\* Rounds of a start_* followed by racing stop_* calls of the started
\* direction, the transport answering every transfer with success: a start_*
\* is called when no call is in progress and all results are collected, a
\* stop_rx (stop_tx) while Mode is Receive (Transmit) and no start_* is in
\* progress, and the results of a round are collected together once every
\* call has returned.
NextStopRace ==
    \/ \E t \in Threads :
        \/ \E o \in StartOps : \E c \in Configs(o) :
              (\A u \in Threads : pc[u] = "idle") /\ StartCas(t, o, c)
        \/ ConfigStep(t, "ok")
        \/ SetMode(t, "ok")
        \/ \E o \in StopOps :
              /\ mode = TargetMode(o)
              /\ \A u \in Threads : pc[u] \notin {"config", "setmode"}
              /\ StopCall(t, o)
        \/ StopOff(t, "ok")
        \/ StopCas(t)
    \/ /\ \A u \in Threads : ~InCall(u)
       /\ \E u \in Threads : pc[u] = "done"
       /\ Collect({u \in Threads : pc[u] = "done"})

SpecStopRace == Init /\ [][NextStopRace]_vars

\* ------------------------------------------------------------- claims
OffRequest == Xfer("control_out", SetTransceiverMode, TransceiverOff, 0, 0, "ok")

\* thread t executes, in this step, the compare_exchange of a start_* / stop_*
StartCasStep(t) == pc[t] = "idle" /\ op'[t] \in StartOps
StopCasStep(t) == pc[t] = "stopcas" /\ pc'[t] # "stopcas"

\* thread t returns from its call in this step
Returns(t) == pc[t] \notin {"done", "panicked"} /\ pc'[t] \in {"done", "panicked"}

\* C1: Mode changes only by Idle->Receive (start_rx), Idle->Transmit
\* (start_tx), Receive->Idle (stop_rx) and Transmit->Idle (stop_tx); never
\* Receive<->Transmit, and no other operation writes Mode.
C1_ModeTransitions ==
    [][mode' # mode =>
        \E t \in Threads :
            \/ StartCasStep(t) /\ op'[t] = "start_rx" /\ mode = "Idle" /\ mode' = "Receive"
            \/ StartCasStep(t) /\ op'[t] = "start_tx" /\ mode = "Idle" /\ mode' = "Transmit"
            \/ StopCasStep(t) /\ op[t] = "stop_rx" /\ mode = "Receive" /\ mode' = "Idle"
            \/ StopCasStep(t) /\ op[t] = "stop_tx" /\ mode = "Transmit" /\ mode' = "Idle"]_vars

\* Mode went Idle->Receive->Idle->Transmit
C1_Witness ==
    /\ mode = "Transmit"
    /\ \E t \in Threads : op[t] = "stop_rx" /\ res[t] = Ok
    /\ \E t \in Threads : op[t] = "start_tx" /\ pc[t] \in {"config", "setmode", "done"}

\* C2: a start_* that finds Mode not Idle returns WrongMode{required: Idle,
\* actual: the Mode observed}, leaves Mode unchanged and issues no transfer.
C2_StartWrongMode ==
    [][\A t \in Threads :
         StartCasStep(t) /\ mode # "Idle" =>
            /\ pc'[t] = "done"
            /\ res'[t] = WrongMode("Idle", mode)
            /\ mode' = mode
            /\ io'[t] = <<>>
            /\ xcvr' = xcvr]_vars

\* start_tx succeeded, a second start_tx failed with actual: Transmit
C2_Witness ==
    /\ armed = "Transmit"
    /\ \E t \in Threads :
         /\ pc[t] = "done" /\ op[t] = "start_tx"
         /\ res[t] = WrongMode("Idle", "Transmit")
         /\ io[t] = <<>>

\* the SetTransceiverMode(Receive|Transmit) requests among the transfers of a call
ModeRequests(log) ==
    {i \in 1..Len(log) : log[i].req = SetTransceiverMode /\ log[i].value # TransceiverOff}

\* Of the start_* calls racing on an Idle Mode one wins the CAS, the others
\* return WrongMode without I/O, and only a winner issues transfers.
C3_OneWinner ==
    /\ wins <= 1
    /\ mode # "Idle" => wins = 1
    /\ \A t \in Threads :
         op[t] \in StartOps =>
            /\ res[t].kind = "WrongMode" => io[t] = <<>>
            /\ io[t] # <<>> => pc[t] \in {"config", "setmode", "done", "panicked"}
                               /\ res[t].kind # "WrongMode"

\* C3 as stated: one winner, and the device receives at most one
\* SetTransceiverMode(Receive|Transmit) request per period in which Mode is
\* not Idle.
C3_OneModeRequestPerPeriod ==
    /\ C3_OneWinner
    /\ modeReqs <= 1

\* C3 as amended: one winner, and every CAS win is followed by at most one
\* SetTransceiverMode(Receive|Transmit) request, the last transfer of the
\* winning call.
C3_OneModeRequestPerWin ==
    /\ C3_OneWinner
    /\ \A t \in Threads :
         op[t] \in StartOps =>
            /\ Cardinality(ModeRequests(io[t])) <= 1
            /\ ModeRequests(io[t]) \subseteq {Len(io[t])}

\* two start_* raced: one returned Ok, the other WrongMode without I/O
C3_Witness ==
    \E t, u \in Threads :
        /\ op[t] \in StartOps /\ res[t] = Ok /\ Cardinality(ModeRequests(io[t])) = 1
        /\ op[u] \in StartOps /\ res[u].kind = "WrongMode" /\ io[u] = <<>>

\* C4: a stop_* sends SetTransceiverMode(Off) before its compare_exchange:
\* Mode becomes Idle only in a call whose Off request succeeded, and a failed
\* Off request ends the call with the error and Mode unchanged.
C4_OffBeforeCas ==
    /\ [](\A t \in Threads : pc[t] = "stopcas" => io[t] = <<OffRequest>>)
    /\ [][/\ mode' = "Idle" /\ mode # "Idle" =>
               \E t \in Threads : StopCasStep(t) /\ io[t] = <<OffRequest>> /\ res'[t] = Ok
          /\ \A t \in Threads :
               pc[t] = "off" /\ pc'[t] # "off" /\ io'[t] # <<OffRequest>> =>
                  /\ mode' = mode
                  /\ pc'[t] = "done"
                  /\ res'[t] = Err("Transfer")
                  /\ io'[t][1].req = SetTransceiverMode
                  /\ io'[t][1].value = TransceiverOff]_vars

\* one stop_* failed on its Off request and left Mode alone, another went through
C4_Witness ==
    \E t, u \in Threads :
        /\ op[t] \in StopOps /\ res[t] = Err("Transfer")
        /\ op[u] \in StopOps /\ res[u] = Ok /\ io[u] = <<OffRequest>>
        /\ mode = "Idle"

\* C5 as stated: a stop_* that returns while Mode is not its own direction
\* returns WrongMode and leaves Mode as it was; the Off request of that call
\* has been sent.
C5_StopWrongMode ==
    [][\A t \in Threads :
         (Returns(t) /\ op[t] \in StopOps /\ mode # TargetMode(op[t])) =>
            /\ res'[t].kind = "WrongMode"
            /\ res'[t].actual = mode
            /\ mode' = mode
            /\ io'[t] = <<OffRequest>>]_vars

\* C5 as amended: a stop_* that returns while Mode is not its own direction
\* has sent its Off request and nothing else and leaves Mode as it was; it
\* returns WrongMode, carrying the Mode found, when the Off request succeeded,
\* and the error of the Off request, without a compare_exchange, when it
\* failed.
C5_StopWrongModeOrError ==
    [][\A t \in Threads :
         (Returns(t) /\ op[t] \in StopOps /\ mode # TargetMode(op[t])) =>
            /\ mode' = mode
            /\ Len(io'[t]) = 1
            /\ io'[t][1] = [OffRequest EXCEPT !.out = io'[t][1].out]
            /\ IF io'[t][1].out = "ok"
                 THEN /\ StopCasStep(t)
                      /\ res'[t].kind = "WrongMode"
                      /\ res'[t].actual = mode
                 ELSE /\ pc[t] = "off"
                      /\ res'[t] = Err("Transfer")
                      /\ xcvr' = xcvr]_vars

\* in Transmit one stop_rx returned WrongMode after its Off request and another
\* the error of its Off request: Mode is still Transmit
C5_Witness ==
    /\ mode = "Transmit"
    /\ \E t, u \in Threads :
         /\ op[t] = "stop_rx" /\ res[t].kind = "WrongMode" /\ io[t] = <<OffRequest>>
         /\ op[u] = "stop_rx" /\ res[u] = Err("Transfer") /\ Len(io[u]) = 1

\* the threads holding the result of a stop_*
Stopped == {t \in Threads : pc[t] = "done" /\ op[t] \in StopOps}

\* C6: stop_tx (stop_rx) calls racing while Mode is Transmit (Receive), no
\* start_* running and the transport succeeding: once all have returned,
\* exactly one returned Ok and the others WrongMode, each sent one Off request,
\* Mode is Idle and the device's transceiver is off.
C6_StopRace ==
    (Stopped # {} /\ \A t \in Threads : ~InCall(t)) =>
        /\ Cardinality({t \in Stopped : res[t] = Ok}) = 1
        /\ \A t \in Stopped : res[t].kind \in {"Ok", "WrongMode"} /\ io[t] = <<OffRequest>>
        /\ mode = "Idle"
        /\ xcvr = TransceiverOff

\* every thread raced on the stop_* and has returned, after a start_* that
\* had put the device into the mode
C6_Witness ==
    /\ Stopped = Threads
    /\ \E t \in Threads : res[t] = Ok
    /\ \E t \in Threads : res[t].kind = "WrongMode"
    /\ modeReqs = 1

\* C7 as stated: in one thread with a succeeding transport, a stop_rx
\* (stop_tx) returns Ok exactly when a start_rx (start_tx) has returned Ok and
\* no stop_* has returned Ok since, and returns WrongMode otherwise.
C7_StopOncePerStart ==
    [][StopCasStep(1) =>
         /\ res'[1] = Ok <=> armed = TargetMode(op[1])
         /\ res'[1] # Ok => res'[1].kind = "WrongMode"]_vars

\* the requests of a start_* in their order: the eight of apply_config, then
\* SetTransceiverMode
StartOrder ==
    <<SetLnaGain, SetVgaGain, SetTxvgaGain, SetFreq, AmpEnable, AntennaEnable,
      SampleRateSet, BasebandFilterBandwidthSet, SetTransceiverMode>>

\* C8: a start_* that won the CAS issues SetLnaGain, SetVgaGain, SetTxvgaGain,
\* SetFreq, AmpEnable, AntennaEnable, SampleRateSet,
\* BasebandFilterBandwidthSet and then SetTransceiverMode (1 for start_rx, 2
\* for start_tx), each after the one before it succeeded; a start_* that lost
\* the CAS issues nothing.
C8_StartOrder ==
    \A t \in Threads :
        op[t] \in StartOps =>
            /\ Len(io[t]) <= Len(StartOrder)
            /\ \A i \in 1..Len(io[t]) :
                 /\ io[t][i].req = StartOrder[i]
                 /\ i < Len(io[t]) => io[t][i].out = "ok"
                 /\ i = Len(StartOrder) =>
                      io[t][i].value = (IF op[t] = "start_rx" THEN 1 ELSE 2)
            /\ pc[t] = "config" => Len(io[t]) = step[t] - 1
            /\ pc[t] = "setmode" => Len(io[t]) = ConfigSteps
            /\ res[t] = Ok => Len(io[t]) = Len(StartOrder)
            /\ res[t].kind = "WrongMode" => io[t] = <<>>

\* a start_rx and a start_tx have each returned Ok after their nine requests
C8_Witness ==
    \E t, u \in Threads :
        /\ op[t] = "start_rx" /\ res[t] = Ok /\ io[t][9].value = 1
        /\ op[u] = "start_tx" /\ res[u] = Ok /\ io[u][9].value = 2

\* C9 as stated: the interface is claimed exactly while a streaming session
\* is active, that is from a start_* that returned Ok to the next stop_*.
C9_ClaimedWhileStreaming ==
    claimed <=> armed # "none"

\* C9 as amended: start_* and stop_* neither claim nor release an interface,
\* interface 0 stays claimed from open on; the last transfer of a successful
\* start_* is its SetTransceiverMode request and the first transfer of a
\* stop_* is SetTransceiverMode(Off).
C9_ClaimedThroughout ==
    /\ claimed
    /\ \A t \in Threads :
         /\ op[t] \in StartOps /\ res[t] = Ok =>
              /\ io[t][Len(io[t])].req = SetTransceiverMode
              /\ io[t][Len(io[t])].value = TransceiverCode(op[t])
         /\ op[t] \in StopOps /\ pc[t] # "off" =>
              /\ io[t] # <<>>
              /\ io[t][1].req = SetTransceiverMode
              /\ io[t][1].value = TransceiverOff

\* a session was started and stopped again
C9_Witness ==
    /\ armed = "none"
    /\ mode = "Idle"
    /\ \E t \in Threads : op[t] \in StartOps /\ res[t] = Ok
    /\ \E t \in Threads : op[t] \in StopOps /\ res[t] = Ok

\* the mode an operation needs in order to proceed
RequiredMode(o) ==
    CASE o \in StartOps -> "Idle"
      [] o \in {"stop_rx", "read"} -> "Receive"
      [] OTHER -> "Transmit"

\* C10 as stated: every WrongMode carries as `required` the mode the operation
\* needs (Idle for start_*, Receive for read and stop_rx, Transmit for write
\* and stop_tx) and as `actual` a mode other than that.
C10_WrongModeFields ==
    \A t \in Threads :
        res[t].kind = "WrongMode" =>
            /\ res[t].required = RequiredMode(op[t])
            /\ res[t].actual \in Modes \ {RequiredMode(op[t])}

\* ------------------------------------------ operations called on their own
\* One operation is called on the opened driver by one thread and runs to its
\* return; the answers of the transport are inputs.

\* largest gain tried
MaxGain == 64

\* largest N of read_control tried
MaxN == 2

\* largest payload of write_control tried
MaxPayload == 8

\* the bytes a control read delivers: the acknowledgement is 0 or not
AckBytes == {0, 1}

BoardIdRead == 14
VersionStringRead == 15
Reset == 30

\* the length version() asks for
VersionLength == 64

\* the sequences over S of length at most n
SeqsUpTo(S, n) == UNION {[1..k -> S] : k \in 0..n}

\* control_in of n bytes: the transfer fails, or delivers at most n bytes
ControlInAnswers(n) ==
    {[err |-> TRUE, data |-> <<>>]}
        \cup {[err |-> FALSE, data |-> d] : d \in SeqsUpTo(AckBytes, n)}

\* control_out of n bytes: the transfer fails, or reports at most n bytes
\* written
ControlOutAnswers(n) ==
    {[err |-> TRUE, count |-> 0]} \cup {[err |-> FALSE, count |-> k] : k \in 0..n}

\* one control transfer with its payload and the answer of the transport
Transfer(kind, req, value, index, n, data, ans) ==
    [len |-> n, req |-> req, value |-> value, index |-> index, xfer |-> kind,
     data |-> data, ans |-> ans]

\* Error::TransferTruncated { actual, expected }
TransferTruncated(actual, expected) ==
    [kind |-> "TransferTruncated",
     count |-> [actual |-> actual, expected |-> expected]]

\* Error::NoApi { device, min }
NoApi(device, min) == [kind |-> "NoApi", device |-> device, min |-> min]

\* what a call did: the transfers issued, the result, the data returned
Did(log, r, data) == [io |-> log, res |-> r, ret |-> data]

\* read_control::<N>(request, value, index)
read_control(N, request, value, index, ans) ==
    LET x == Transfer("control_in", request, value, index, N, <<>>, ans) IN
    IF ans.err THEN Did(<<x>>, Err("Transfer"), <<>>)
    ELSE IF Len(ans.data) # N
         THEN Did(<<x>>, TransferTruncated(Len(ans.data), N), <<>>)
         ELSE Did(<<x>>, Ok, ans.data)

\* write_control without the check of the count
write_control_unchecked(request, value, index, buf, ans) ==
    LET x == Transfer("control_out", request, value, index, Len(buf), buf, ans) IN
    IF ans.err THEN Did(<<x>>, Err("Transfer"), <<>>)
    ELSE Did(<<x>>, Ok, <<>>)

\* write_control(request, value, index, buf)
write_control(request, value, index, buf, ans) ==
    LET x == Transfer("control_out", request, value, index, Len(buf), buf, ans) IN
    IF ans.err THEN Did(<<x>>, Err("Transfer"), <<>>)
    ELSE IF ans.count # Len(buf)
         THEN Did(<<x>>, TransferTruncated(ans.count, Len(buf)), <<>>)
         ELSE Did(<<x>>, Ok, <<>>)

\* the body shared by the gain setters: the range check, the one-byte control
\* read, the panic on an acknowledgement byte 0
SetGain(valid, request, index, ans) ==
    IF ~valid THEN Did(<<>>, Err("Argument"), <<>>)
    ELSE LET r == read_control(1, request, 0, index, ans) IN
         IF r.res.kind # "Ok" THEN r
         ELSE IF r.ret[1] = 0 THEN Did(r.io, Err("Panic"), <<>>)
              ELSE Did(r.io, Ok, <<>>)

set_lna_gain(gain, ans) == SetGain(LnaGainOk(gain), SetLnaGain, LnaIndex(gain), ans)
set_vga_gain(gain, ans) == SetGain(VgaGainOk(gain), SetVgaGain, VgaIndex(gain), ans)
set_txvga_gain(gain, ans) == SetGain(TxvgaGainOk(gain), SetTxvgaGain, gain, ans)

\* board_id()
board_id(ans) ==
    LET r == read_control(1, BoardIdRead, 0, 0, ans) IN
    IF r.res.kind # "Ok" THEN r ELSE Did(r.io, Ok, <<r.ret[1]>>)

\* the number of bytes of the UTF-8 character that starts with byte b, 0
\* when no character starts with b
Utf8Width(b) ==
    CASE b < 128 -> 1
      [] b >= 194 /\ b <= 223 -> 2
      [] b >= 224 /\ b <= 239 -> 3
      [] b >= 240 /\ b <= 244 -> 4
      [] OTHER -> 0

\* the i-th byte of buf, 0 past its end
SafeGet(buf, i) == IF i <= Len(buf) THEN buf[i] ELSE 0

\* b is a continuation byte, 10xxxxxx
IsCont(b) == b >= 128 /\ b <= 191

\* the byte that may follow the first byte b of a three- or four-byte character
SecondOk(b, c) ==
    CASE b = 224 -> c >= 160 /\ c <= 191
      [] b = 237 -> c >= 128 /\ c <= 159
      [] b = 240 -> c >= 144 /\ c <= 191
      [] b = 244 -> c >= 128 /\ c <= 143
      [] OTHER -> IsCont(c)

\* the first chunk of a non-empty buf: a whole character of n bytes, or the
\* n bytes of an ill-formed sequence read before the byte that breaks it
Utf8Chunk(buf) ==
    LET w == Utf8Width(buf[1]) IN
    CASE w = 1 -> [ok |-> TRUE, n |-> 1]
      [] w = 2 -> IF IsCont(SafeGet(buf, 2)) THEN [ok |-> TRUE, n |-> 2]
                  ELSE [ok |-> FALSE, n |-> 1]
      [] w = 3 -> IF ~SecondOk(buf[1], SafeGet(buf, 2)) THEN [ok |-> FALSE, n |-> 1]
                  ELSE IF ~IsCont(SafeGet(buf, 3)) THEN [ok |-> FALSE, n |-> 2]
                  ELSE [ok |-> TRUE, n |-> 3]
      [] w = 4 -> IF ~SecondOk(buf[1], SafeGet(buf, 2)) THEN [ok |-> FALSE, n |-> 1]
                  ELSE IF ~IsCont(SafeGet(buf, 3)) THEN [ok |-> FALSE, n |-> 2]
                  ELSE IF ~IsCont(SafeGet(buf, 4)) THEN [ok |-> FALSE, n |-> 3]
                  ELSE [ok |-> TRUE, n |-> 4]
      [] OTHER -> [ok |-> FALSE, n |-> 1]

\* U+FFFD REPLACEMENT CHARACTER in UTF-8
ReplacementChar == <<239, 191, 189>>

RECURSIVE from_utf8_lossy(_)
\* String::from_utf8_lossy(buf), the bytes of the String: well-formed
\* characters are kept, every ill-formed sequence becomes one U+FFFD
from_utf8_lossy(buf) ==
    IF buf = <<>> THEN <<>>
    ELSE LET c == Utf8Chunk(buf) IN
         (IF c.ok THEN SubSeq(buf, 1, c.n) ELSE ReplacementChar)
             \o from_utf8_lossy(SubSeq(buf, c.n + 1, Len(buf)))

\* the bytes the device answers to VersionStringRead: ASCII, a continuation
\* byte, first bytes of two-, three- and four-byte characters, and a byte
\* that occurs in no UTF-8 text
VersionBytes == {65, 159, 195, 226, 240, 255}

\* longest answer to VersionStringRead tried
MaxVersionLen == 4

\* the answers of the transport to the control_in of version()
VersionAnswers ==
    {[err |-> TRUE, data |-> <<>>]}
        \cup {[err |-> FALSE, data |-> d] : d \in SeqsUpTo(VersionBytes, MaxVersionLen)}

\* version(): control_in called directly, `expect` on its result, no check
\* of the length; the String is from_utf8_lossy of the bytes received
version_string(ans) ==
    LET x == Transfer("control_in", VersionStringRead, 0, 0, VersionLength, <<>>, ans) IN
    IF ans.err THEN Did(<<x>>, Err("Panic"), <<>>)
    ELSE Did(<<x>>, Ok, from_utf8_lossy(ans.data))

\* ---- integers wider than the checker's, as little-endian byte sequences
RECURSIVE ToBytes(_, _)
\* the w low bytes of n, least significant first
ToBytes(n, w) == IF w = 0 THEN <<>> ELSE <<n % 256>> \o ToBytes(n \div 256, w - 1)

RECURSIVE FromBytes(_)
\* the number a byte sequence stands for (below 2^31 only)
FromBytes(b) == IF b = <<>> THEN 0 ELSE b[1] + 256 * FromBytes(Tail(b))

RECURSIVE DivStep(_, _, _, _)
\* long division by d of the bytes 1..i of x, r the remainder carried down
\* from the bytes above
DivStep(x, d, i, r) ==
    IF i = 0 THEN <<>>
    ELSE LET cur == r * 256 + x[i] IN
         Append(DivStep(x, d, i - 1, cur % d), cur \div d)

\* x / d
DivSmall(x, d) == DivStep(x, d, Len(x), 0)

RECURSIVE MulStep(_, _, _, _)
MulStep(x, k, i, carry) ==
    IF i > Len(x) THEN <<>>
    ELSE LET cur == x[i] * k + carry IN
         <<cur % 256>> \o MulStep(x, k, i + 1, cur \div 256)

\* x * k in the width of x
MulSmall(x, k) == MulStep(x, k, 1, 0)

RECURSIVE SubStep(_, _, _, _)
SubStep(x, y, i, borrow) ==
    IF i > Len(x) THEN <<>>
    ELSE LET cur == x[i] + 256 - y[i] - borrow IN
         <<cur % 256>> \o SubStep(x, y, i + 1, IF cur < 256 THEN 1 ELSE 0)

\* x - y in the width of x
Sub(x, y) == SubStep(x, y, 1, 0)

RECURSIVE AddStep(_, _, _, _)
AddStep(x, y, i, carry) ==
    IF i > Len(x) THEN <<>>
    ELSE LET cur == x[i] + y[i] + carry IN
         <<cur % 256>> \o AddStep(x, y, i + 1, cur \div 256)

\* x + y in the width of x
Add(x, y) == AddStep(x, y, 1, 0)

RECURSIVE LessFrom(_, _, _)
LessFrom(x, y, i) ==
    IF i = 0 THEN FALSE
    ELSE IF x[i] # y[i] THEN x[i] < y[i] ELSE LessFrom(x, y, i - 1)

\* x < y, for sequences of one width
Less(x, y) == LessFrom(x, y, Len(x))

\* u64::from(x) of a u32
U64From(x) == x \o <<0, 0, 0, 0>>

U32Max == <<255, 255, 255, 255>>
U64Max == U32Max \o U32Max

\* u32::try_from(x) that keeps the low half of x (wraps)
TryU32Wrapping(x) == SubSeq(x, 1, 4)

\* u32::try_from(x).unwrap_or(u32::MAX) of a u64
TryU32(x) == IF SubSeq(x, 5, 8) = <<0, 0, 0, 0>> THEN SubSeq(x, 1, 4) ELSE U32Max

\* the byte order of the target the driver is built for
TargetBigEndian == FALSE

\* u32::swap_bytes
swap_bytes(x) == [i \in 1..Len(x) |-> x[Len(x) + 1 - i]]

\* u32::to_le: the identity on a little-endian target
to_le(x) == IF TargetBigEndian THEN swap_bytes(x) ELSE x

MHZ == 1000000

\* freq_params with the hertz before the megahertz
freq_params_hz_first(hz) ==
    LET l_freq_mhz == to_le(TryU32(DivSmall(hz, MHZ)))
        l_freq_hz == to_le(TryU32(Sub(hz, MulSmall(U64From(l_freq_mhz), MHZ))))
    IN l_freq_hz \o l_freq_mhz

\* freq_params(hz), hz a u64; the bytes are taken out of the two u32 by
\* shift and mask, least significant first
freq_params(hz) ==
    LET l_freq_mhz == to_le(TryU32(DivSmall(hz, MHZ)))
        l_freq_hz == to_le(TryU32(Sub(hz, MulSmall(U64From(l_freq_mhz), MHZ))))
    IN l_freq_mhz \o l_freq_hz

\* set_freq handing its transfer to the transport itself
set_freq_direct(hz, ans) ==
    write_control_unchecked(SetFreq, 0, 0, freq_params(hz), ans)

\* set_freq(hz)
set_freq(hz, ans) == write_control(SetFreq, 0, 0, freq_params(hz), ans)

\* set_baseband_filter_bandwidth with the two halves exchanged
set_baseband_filter_bandwidth_swapped(hz, ans) ==
    write_control(BasebandFilterBandwidthSet, hz \div 65536, hz % 65536, <<>>, ans)

\* set_baseband_filter_bandwidth(hz): value is hz & 0xFFFF, index is hz >> 16
set_baseband_filter_bandwidth(hz, ans) ==
    write_control(BasebandFilterBandwidthSet, hz % 65536, hz \div 65536, <<>>, ans)

\* set_sample_rate that sends the bandwidth whatever the first write did
set_sample_rate_both(hz, div, ans1, ans2) ==
    LET l_hz == to_le(ToBytes(hz, 4))
        l_div == to_le(ToBytes(div, 4))
        w == write_control(SampleRateSet, 0, 0, l_hz \o l_div, ans1)
        b == set_baseband_filter_bandwidth(
                 BasebandBandwidth(FromBytes(l_hz), FromBytes(l_div)), ans2)
    IN Did(w.io \o b.io, b.res, <<>>)

\* set_sample_rate(hz, div)
set_sample_rate(hz, div, ans1, ans2) ==
    LET l_hz == to_le(ToBytes(hz, 4))
        l_div == to_le(ToBytes(div, 4))
        w == write_control(SampleRateSet, 0, 0, l_hz \o l_div, ans1)
        b == set_baseband_filter_bandwidth(
                 BasebandBandwidth(FromBytes(l_hz), FromBytes(l_div)), ans2)
    IN IF w.res.kind # "Ok" THEN w ELSE Did(w.io \o b.io, b.res, <<>>)

\* ---- the device version
\* version_to_u32 without the shifts
version_to_u32_unshifted(v) == v[1] + v[2] + v[3]

\* version_to_u32(v)
version_to_u32(v) == v[1] * 65536 + v[2] * 256 + v[3]

\* check_api_version with > for >=
check_api_version_above(v, min) ==
    IF version_to_u32(v) > version_to_u32(min) THEN Ok ELSE NoApi(v, min)

\* check_api_version(min) on a driver of version v
check_api_version(v, min) ==
    IF version_to_u32(v) >= version_to_u32(min) THEN Ok ELSE NoApi(v, min)

\* reset()
reset(v, ans) ==
    LET c == check_api_version(v, from_bcd(ResetMinBcd)) IN
    IF c.kind # "Ok" THEN Did(<<>>, c, <<>>)
    ELSE write_control(Reset, 0, 0, <<>>, ans)

\* the variables of the driver and of its threads
driver == <<mode, claimed, xcvr, pc, op, cfg, len, step, io, res, samples, calls,
            faults, wins, modeReqs, armed, version, timeout_nanos, started, streamer>>

\* operation fn is called on the driver with arguments arg and does d; a
\* driver that was consumed takes no call
Invoke(fn, arg, d) ==
    /\ call.fn = "none"
    /\ claimed
    /\ call' = [io |-> d.io, res |-> d.res, fn |-> fn, ret |-> d.ret,
                arg |-> arg]
    /\ UNCHANGED driver

\* the caller takes the result
CallReturn ==
    /\ call.fn # "none"
    /\ call' = NoCall
    /\ UNCHANGED driver

CallSetLnaGain ==
    \E gain \in 0..MaxGain, ans \in ControlInAnswers(1) :
        Invoke("set_lna_gain", <<gain>>, set_lna_gain(gain, ans))

CallSetVgaGain ==
    \E gain \in 0..MaxGain, ans \in ControlInAnswers(1) :
        Invoke("set_vga_gain", <<gain>>, set_vga_gain(gain, ans))

CallSetTxvgaGain ==
    \E gain \in 0..MaxGain, ans \in ControlInAnswers(1) :
        Invoke("set_txvga_gain", <<gain>>, set_txvga_gain(gain, ans))

CallBoardId ==
    \E ans \in ControlInAnswers(1) : Invoke("board_id", <<>>, board_id(ans))

CallVersion ==
    /\ call.fn = "none"
    /\ \E ans \in VersionAnswers : Invoke("version", <<>>, version_string(ans))

CallReadControl ==
    \E N \in 1..MaxN : \E ans \in ControlInAnswers(N) :
        Invoke("read_control", <<N>>, read_control(N, BoardIdRead, 0, 0, ans))

CallWriteControl ==
    \E n \in 0..MaxPayload : \E ans \in ControlOutAnswers(n) :
        Invoke("write_control", <<n>>,
               write_control(SetFreq, 0, 0, [i \in 1..n |-> 0], ans))

\* largest offset added to a sample rate tried
MaxRateOffset == 3

\* largest divider tried
MaxDiv == 3

\* the preferred rates, and the 2.5 MHz of the specification's example
RateBases == {2500000, 8000000, 10000000, 12500000, 16000000, 20000000}

Rates == {b + k : b \in RateBases, k \in 0..MaxRateOffset}

CallSetSampleRate ==
    \E hz \in Rates, div \in 1..MaxDiv :
        \E ans1 \in ControlOutAnswers(8), ans2 \in ControlOutAnswers(0) :
            Invoke("set_sample_rate", <<hz, div>>,
                   set_sample_rate(hz, div, ans1, ans2))

\* bandwidths around 2^16, the smallest and the largest filter of the
\* hardware, and the ends of the range the checker's integers hold
Bandwidths == {0, 1, 65535, 65536, 65537, 1750000, 28000000, 2147483647}

CallSetBasebandFilterBandwidth ==
    \E hz \in Rates \cup Bandwidths, ans \in ControlOutAnswers(0) :
        Invoke("set_baseband_filter_bandwidth", <<hz>>,
               set_baseband_filter_bandwidth(hz, ans))

\* largest distance of a frequency tried from one of the chosen ones
MaxFreqOffset == 7

\* 2^32 * 10^6, the first frequency whose megahertz do not fit a u32
MhzLimit == <<0, 0, 0, 0, 64, 66, 15, 0>>

\* frequencies at and above 0, the examples of the tests, one below 1 MHz,
\* and the frequencies below 2^32 * 10^6, 2^32 * (10^6 + 1) and 2^64
Freqs ==
    {Add(ToBytes(b, 8), ToBytes(k, 8)) :
        b \in {0, 999996, 123456789, 915000000}, k \in 0..MaxFreqOffset}
    \cup {Add(MhzLimit, ToBytes(k, 8)) : k \in 0..MaxFreqOffset}
    \cup {Sub(b, ToBytes(k, 8)) :
             b \in {MhzLimit, <<0, 0, 0, 0, 65, 66, 15, 0>>, U64Max},
             k \in 0..MaxFreqOffset}

CallFreqParams ==
    \E hz \in Freqs : Invoke("freq_params", hz, Did(<<>>, Ok, freq_params(hz)))

CallSetFreq ==
    \E hz \in Freqs, ans \in ControlOutAnswers(8) :
        Invoke("set_freq", hz, set_freq(hz, ans))

\* Any operation other than start, stop, read and write, called on the opened
\* driver with any input and any answer of the transport.
NextCall ==
    \/ CallSetLnaGain
    \/ CallSetVgaGain
    \/ CallSetTxvgaGain
    \/ CallBoardId
    \/ CallVersion
    \/ CallReadControl
    \/ CallWriteControl
    \/ CallSetSampleRate
    \/ CallSetBasebandFilterBandwidth
    \/ CallFreqParams
    \/ CallSetFreq
    \/ CallReturn

SpecCall == Init /\ [][NextCall]_vars

\* largest bcdDevice tried
MaxBcd == 528

\* open of a device of any version
InitReset ==
    /\ Opened
    /\ streamer = NoAdapter
    /\ call = NoCall
    /\ version \in {from_bcd(raw) : raw \in 0..MaxBcd}

\* reset(self) takes the driver by value: whatever it returns, the HackRf is
\* dropped at the return, interface 0 is released and no call can follow
CallReset ==
    /\ call.fn = "none"
    /\ claimed
    /\ \E ans \in ControlOutAnswers(0) :
          \E d \in {reset(version, ans)} :
              call' = [io |-> d.io, res |-> d.res, fn |-> "reset", ret |-> d.ret,
                       arg |-> <<>>]
    /\ claimed' = FALSE
    /\ UNCHANGED <<mode, xcvr, pc, op, cfg, len, step, io, res, samples, calls,
                   faults, wins, modeReqs, armed, version, timeout_nanos,
                   started, streamer>>

\* the minimum versions asked for: each part small, or the largest u8
Minimums == {<<a, b, c>> : a \in {0, 1, 2, 255}, b \in {0, 1, 255}, c \in {0, 2, 3, 255}}

CallCheckApiVersion ==
    \E min \in Minimums :
        Invoke("check_api_version", min, Did(<<>>, check_api_version(version, min), <<>>))

NextReset ==
    \/ CallReset
    \/ CallCheckApiVersion
    \/ CallReturn

\* reset() and check_api_version(min) called, one after the other, on a
\* driver opened on a device of any version
SpecReset == InitReset /\ [][NextReset]_vars

\* thread t calls read or write in this step
StreamCall(t) == pc[t] = "idle" /\ op'[t] \in StreamOps

\* the bulk transfers in a log
BulkTransfers(log) == {i \in DOMAIN log : log[i].xfer \in {"bulk_in", "bulk_out"}}

\* C11: read called while Mode is not Receive, and write called while Mode is
\* not Transmit, return WrongMode{required: Receive / Transmit, actual: the
\* Mode found}; the call issues no bulk transfer, and leaves Mode and the
\* caller's buffer as they were.
C11_StreamWrongMode ==
    [][\A t \in Threads :
          (StreamCall(t) /\ mode # TargetMode(op'[t])) =>
              /\ pc'[t] = "done"
              /\ res'[t] = WrongMode(TargetMode(op'[t]), mode)
              /\ BulkTransfers(io'[t]) = {}
              /\ io'[t] = <<>>
              /\ mode' = mode
              /\ samples'[t] = samples[t]]_vars

\* right after open (the first call on the device, Mode Idle) a read was
\* refused
C11_Witness ==
    \E t \in Threads :
        /\ calls = 1
        /\ mode = "Idle"
        /\ pc[t] = "done" /\ op[t] = "read"
        /\ res[t] = WrongMode("Receive", "Idle")
        /\ io[t] = <<>> /\ samples[t] = 0

\* C12: no bulk transfer has a length that is not a multiple of 512; with
\* Mode matching the direction a buffer of such a length aborts the call
\* before any transfer, and with another Mode the call returns WrongMode
\* whatever the length.
C12_BulkMultipleOf512 ==
    [][\A t \in Threads :
          /\ \A i \in BulkTransfers(io'[t]) : io'[t][i].len % 512 = 0
          /\ StreamCall(t) =>
                /\ (mode = TargetMode(op'[t]) /\ len'[t] % 512 # 0) =>
                       /\ pc'[t] = "panicked"
                       /\ res'[t] = Err("Panic")
                       /\ io'[t] = <<>>
                /\ mode # TargetMode(op'[t]) => res'[t].kind = "WrongMode"]_vars

\* a write of a 513-byte buffer panicked in Mode Transmit, and a read in that
\* Mode was refused with WrongMode
C12_Witness ==
    \E t, u \in Threads :
        /\ pc[t] = "panicked" /\ op[t] = "write"
        /\ len[t] = 513 /\ mode = "Transmit" /\ io[t] = <<>>
        /\ pc[u] = "done" /\ op[u] = "read" /\ res[u].kind = "WrongMode"

GainSetters == {"set_lna_gain", "set_vga_gain", "set_txvga_gain"}

\* the gains the documentation of a setter allows
GainInRange(fn, gain) ==
    CASE fn = "set_lna_gain" -> gain <= 40
      [] fn = "set_vga_gain" -> gain <= 62 /\ gain % 2 = 0
      [] fn = "set_txvga_gain" -> gain <= 47

\* C13: a gain setter called with a value out of range (set_lna_gain above
\* 40, set_vga_gain above 62 or odd, set_txvga_gain above 47) returns Argument
\* and issues no control transfer; called with a value in range it issues
\* exactly one control transfer.
C13_GainRange ==
    call.fn \in GainSetters =>
        IF GainInRange(call.fn, call.arg[1])
        THEN Len(call.io) = 1 /\ call.res.kind # "Argument"
        ELSE call.io = <<>> /\ call.res.kind = "Argument"

\* set_vga_gain(25) was refused without a transfer
C13_Witness ==
    /\ call.fn = "set_vga_gain" /\ call.arg = <<25>>
    /\ call.res.kind = "Argument" /\ call.io = <<>>

\* the kinds of Error
TypedErrors == {"Io", "Transfer", "TransferTruncated", "NoApi", "Argument",
                "WrongMode", "NotFound"}

\* C14 as stated: no operation other than read and write aborts; whatever the
\* transport answers, board_id, version and the setters return Ok or a typed
\* error (also a gain setter that receives the acknowledgement byte 0, and
\* version when its transfer fails).
C14_NoAbort ==
    call.fn # "none" => call.res.kind \in {"Ok"} \cup TypedErrors

\* C15: read_control returns Ok only if exactly the N bytes asked for arrived,
\* and then returns them; write_control returns Ok only if exactly the length
\* of the payload is reported written; any other count gives
\* TransferTruncated with the actual and the expected count, and no data.
C15_ControlCounts ==
    /\ call.fn = "read_control" =>
          LET N == call.arg[1]
              a == call.io[1].ans
          IN /\ Len(call.io) = 1
             /\ (call.res.kind = "Ok") <=> (~a.err /\ Len(a.data) = N)
             /\ (call.res.kind = "Ok") => (call.ret = a.data)
             /\ (~a.err /\ Len(a.data) # N) =>
                    /\ call.res = TransferTruncated(Len(a.data), N)
                    /\ call.ret = <<>>
    /\ call.fn = "write_control" =>
          LET n == call.arg[1]
              a == call.io[1].ans
          IN /\ Len(call.io) = 1
             /\ (call.res.kind = "Ok") <=> (~a.err /\ a.count = n)
             /\ (~a.err /\ a.count # n) =>
                    call.res = TransferTruncated(a.count, n)

\* one byte arrived where two were asked for
C15_Witness ==
    /\ call.fn = "read_control" /\ call.arg = <<2>>
    /\ ~call.io[1].ans.err /\ Len(call.io[1].ans.data) = 1
    /\ call.res.kind = "TransferTruncated"
    /\ call.res.count = [actual |-> 1, expected |-> 2]
    /\ call.ret = <<>>

\* v >= w in the lexicographic order of major, minor, sub-minor
VersionAtLeast(v, w) ==
    \/ v[1] > w[1]
    \/ v[1] = w[1] /\ v[2] > w[2]
    \/ v[1] = w[1] /\ v[2] = w[2] /\ v[3] >= w[3]

\* reset gated by the version min: the Reset request (opcode 30, no payload)
\* is the one transfer issued if the device is at least min, otherwise NoApi
\* {device, min} and no transfer
ResetGate(min) ==
    call.fn = "reset" =>
        IF VersionAtLeast(version, min)
        THEN /\ Len(call.io) = 1
             /\ call.io[1].xfer = "control_out" /\ call.io[1].req = 30
             /\ call.io[1].data = <<>>
             /\ call.res.kind # "NoApi"
        ELSE call.io = <<>> /\ call.res = NoApi(version, min)

\* C16 as stated: reset issues the Reset request if and only if the device
\* version is at least 1.2.0, and otherwise returns NoApi without I/O.
C16_ResetFrom120 == ResetGate(<<1, 2, 0>>)

\* C16: reset issues the Reset request (opcode 30) if and only if the device
\* version is at least 1.0.2, which is what from_bcd makes of 0x0102;
\* otherwise it returns NoApi{device, min: 1.0.2} and issues no I/O.
C16_ResetFrom102 == ResetGate(<<1, 0, 2>>)

\* a device of version 1.1.0 was reset
C16_Witness ==
    /\ call.fn = "reset" /\ version = <<1, 1, 0>>
    /\ Len(call.io) = 1 /\ call.io[1].req = Reset /\ call.res.kind = "Ok"

\* the transfers of a log with request req
Requests(log, req) == {i \in DOMAIN log : log[i].req = req}

\* C17: set_sample_rate(hz, div) issues exactly one SampleRateSet write with
\* the 8-byte payload hz, div (each a little-endian u32), then exactly one
\* BasebandFilterBandwidthSet write; if the SampleRateSet write fails, its
\* error is returned and the bandwidth request is not issued.
C17_SampleRateThenBandwidth ==
    call.fn = "set_sample_rate" =>
        LET hz == call.arg[1]
            div == call.arg[2]
            first == call.io[1]
        IN /\ Len(call.io) >= 1
           /\ first.xfer = "control_out" /\ first.req = 6
           /\ first.data = ToBytes(hz, 4) \o ToBytes(div, 4)
           /\ Requests(call.io, 6) = {1}
           /\ IF ~first.ans.err /\ first.ans.count = 8
              THEN /\ Len(call.io) = 2
                   /\ call.io[2].xfer = "control_out" /\ call.io[2].req = 7
                   /\ (call.res.kind = "Ok") <=> ~call.io[2].ans.err
              ELSE /\ Len(call.io) = 1
                   /\ call.res.kind \in {"Transfer", "TransferTruncated"}

\* set_sample_rate(8_000_000, 1) with a succeeding transport
C17_Witness ==
    /\ call.fn = "set_sample_rate" /\ call.arg = <<8000000, 1>>
    /\ Len(call.io) = 2 /\ call.res.kind = "Ok"
    /\ call.io[1].data = <<0, 18, 122, 0, 1, 0, 0, 0>>

\* C18 as stated: the bandwidth set_sample_rate(hz, div) asks for is
\* floor(0.75 * hz / div), for every hz and every div >= 1.
C18_BandwidthFloor ==
    (call.fn = "set_sample_rate" /\ Len(call.io) = 2) =>
        call.io[2].index * 65536 + call.io[2].value
            = (3 * call.arg[1]) \div (4 * call.arg[2])

\* the two fields of a result of freq_params
MhzField(r) == SubSeq(r, 1, 4)
HzField(r) == SubSeq(r, 5, 8)

\* C19: for hz below 2^32 * 10^6, freq_params(hz) is 8 bytes, bytes 0..3 the
\* little-endian u32 floor(hz / 10^6) and bytes 4..7 the little-endian u32
\* hz mod 10^6 (the two fields m, r with r < 10^6 and m * 10^6 + r = hz);
\* 915_000_000 -> [0x93,0x03,0,0,0,0,0,0], 915_000_001 ->
\* [0x93,0x03,0,0,1,0,0,0], 123_456_789 -> [0x7B,0,0,0,0x55,0xF8,0x06,0].
C19_FreqSplit ==
    (call.fn = "freq_params" /\ Less(call.arg, MhzLimit)) =>
        LET r == call.ret IN
        /\ Len(r) = 8
        /\ HzField(r)[4] = 0 /\ FromBytes(SubSeq(HzField(r), 1, 3)) < 1000000
        /\ Add(MulSmall(U64From(MhzField(r)), 1000000), U64From(HzField(r))) = call.arg
        /\ call.arg = ToBytes(915000000, 8) => r = <<147, 3, 0, 0, 0, 0, 0, 0>>
        /\ call.arg = ToBytes(915000001, 8) => r = <<147, 3, 0, 0, 1, 0, 0, 0>>
        /\ call.arg = ToBytes(123456789, 8) => r = <<123, 0, 0, 0, 85, 248, 6, 0>>

\* freq_params(123_456_789)
C19_Witness ==
    /\ call.fn = "freq_params" /\ call.arg = ToBytes(123456789, 8)
    /\ call.ret = <<123, 0, 0, 0, 85, 248, 6, 0>>

\* (2^32 - 1) * 10^6, what the saturated megahertz field stands for
SaturatedMhz == Sub(MhzLimit, ToBytes(1000000, 8))

\* C20: freq_params is total and saturates: 0 gives eight 0x00, u64::MAX
\* eight 0xFF; when the megahertz do not fit 32 bits that field is
\* 0xFFFFFFFF, and the hertz that remain are encoded as they are if they fit
\* 32 bits and as 0xFFFFFFFF if they do not.
C20_FreqSaturates ==
    call.fn = "freq_params" =>
        LET r == call.ret
            remaining == Sub(call.arg, SaturatedMhz)
        IN /\ Len(r) = 8 /\ \A i \in 1..8 : r[i] \in 0..255
           /\ call.arg = ToBytes(0, 8) => r = <<0, 0, 0, 0, 0, 0, 0, 0>>
           /\ call.arg = U64Max => r = U64Max
           /\ ~Less(call.arg, MhzLimit) =>
                 /\ MhzField(r) = U32Max
                 /\ HzField(r) = IF SubSeq(remaining, 5, 8) = <<0, 0, 0, 0>>
                                 THEN SubSeq(remaining, 1, 4) ELSE U32Max

\* a frequency whose megahertz saturate and whose remaining hertz fit, as the
\* result shows
C20_Witness ==
    /\ call.fn = "freq_params" /\ call.arg = Add(MhzLimit, ToBytes(5, 8))
    /\ call.ret = <<255, 255, 255, 255, 69, 66, 15, 0>>

\* ----------------------------------------------- read / write on their own
\* largest number of 512-byte blocks in a sample buffer tried
MaxBlocks == 2

\* a buffer of n bytes whose content depends on the position
Pattern(n, seed) == [i \in 1..n |-> (seed + i) % 256]

\* the sample buffers tried: whole blocks, and one byte more
SampleBuffers ==
    {Pattern(n, seed) : n \in {512 * k : k \in 0..MaxBlocks} \cup {513},
                        seed \in {0, 7, 13}}

\* lengths of a transfer of n bytes that the transport can report
Counts(n) ==
    ({0, 1} \cup {512 * k - 1 : k \in 1..MaxBlocks} \cup {512 * k : k \in 1..MaxBlocks})
        \cap (0..n)

\* bulk_in of n bytes: the transfer fails, or delivers at most n bytes
BulkInAnswers(n) ==
    {[err |-> TRUE, data |-> <<>>]}
        \cup {[err |-> FALSE, data |-> Pattern(k, seed)] :
                 k \in Counts(n), seed \in {100, 200}}

\* bulk_out of n bytes: the transfer fails, or reports at most n bytes written
BulkOutAnswers(n) ==
    {[err |-> TRUE, count |-> 0]} \cup {[err |-> FALSE, count |-> k] : k \in Counts(n)}

\* what read / write did: the transfers, the result, the count returned and
\* the caller's buffer after the call
Streamed(log, r, n, buf) ==
    [io |-> log, res |-> r, ret |-> [samples |-> buf, count |-> n]]

\* read returning the length of the buffer
read_whole_buffer(m, buffer, ans) ==
    LET e == EnsureMode(m, "Receive")
        x == Transfer("bulk_in", EndpointIn, 0, 0, Len(buffer), <<>>, ans)
    IN CASE e.kind # "Ok" -> Streamed(<<>>, e, 0, buffer)
         [] e.kind = "Ok" /\ ans.err -> Streamed(<<x>>, Err("Transfer"), 0, buffer)
         [] OTHER -> Streamed(<<x>>, Ok, Len(buffer),
                        [i \in 1..Len(buffer) |->
                            IF i <= Len(ans.data) THEN ans.data[i] ELSE buffer[i]])

\* read(samples) with Mode m: ensure_mode, the length check, bulk_in of
\* samples.len() bytes on endpoint 0x81, the copy of the bytes delivered to the
\* front of samples, Ok(buf.len())
read(m, buffer, ans) ==
    LET e == EnsureMode(m, "Receive")
        x == Transfer("bulk_in", EndpointIn, 0, 0, Len(buffer), <<>>, ans)
    IN CASE e.kind # "Ok" -> Streamed(<<>>, e, 0, buffer)
         [] e.kind = "Ok" /\ Len(buffer) % 512 # 0 ->
                Streamed(<<>>, Err("Panic"), 0, buffer)
         [] e.kind = "Ok" /\ Len(buffer) % 512 = 0 /\ ans.err ->
                Streamed(<<x>>, Err("Transfer"), 0, buffer)
         [] OTHER -> Streamed(<<x>>, Ok, Len(ans.data),
                        [i \in 1..Len(buffer) |->
                            IF i <= Len(ans.data) THEN ans.data[i] ELSE buffer[i]])

\* write(samples) with Mode m: ensure_mode, the length check, bulk_out of a
\* copy of samples on endpoint 0x02, Ok(actual_length)
write(m, buffer, ans) ==
    LET e == EnsureMode(m, "Transmit")
        x == Transfer("bulk_out", EndpointOut, 0, 0, Len(buffer), buffer, ans)
    IN CASE e.kind # "Ok" -> Streamed(<<>>, e, 0, buffer)
         [] e.kind = "Ok" /\ Len(buffer) % 512 # 0 ->
                Streamed(<<>>, Err("Panic"), 0, buffer)
         [] e.kind = "Ok" /\ Len(buffer) % 512 = 0 /\ ans.err ->
                Streamed(<<x>>, Err("Transfer"), 0, buffer)
         [] OTHER -> Streamed(<<x>>, Ok, ans.count, buffer)

\* the state of the device for Mode m once the start_* that set it returned Ok
TransceiverFor(m) ==
    CASE m = "Receive" -> TransceiverReceive
      [] m = "Transmit" -> TransceiverTransmit
      [] OTHER -> TransceiverOff

\* open, then possibly one start_rx or start_tx that returned Ok and whose
\* result the caller has taken
InitStream ==
    /\ mode \in Modes
    /\ claimed = TRUE
    /\ xcvr = TransceiverFor(mode)
    /\ pc = [t \in Threads |-> "idle"]
    /\ op = [t \in Threads |-> "none"]
    /\ cfg = [t \in Threads |-> NoConfig]
    /\ len = [t \in Threads |-> 0]
    /\ step = [t \in Threads |-> 0]
    /\ io = [t \in Threads |-> <<>>]
    /\ res = [t \in Threads |-> NoRes]
    /\ calls = IF mode = "Idle" THEN 0 ELSE 1
    /\ faults = 0
    /\ wins = IF mode = "Idle" THEN 0 ELSE 1
    /\ modeReqs = IF mode = "Idle" THEN 0 ELSE 1
    /\ armed = IF mode = "Idle" THEN "none" ELSE mode
    /\ started = IF mode = "Idle" THEN "none" ELSE mode
    /\ streamer = NoAdapter
    /\ samples = [t \in Threads |-> 0]
    /\ call = NoCall
    /\ version = from_bcd(ResetMinBcd)
    /\ timeout_nanos = DEFAULT_TIMEOUT_NANOS

CallRead ==
    \E buffer \in SampleBuffers : \E ans \in BulkInAnswers(Len(buffer)) :
        Invoke("read", buffer, read(mode, buffer, ans))

CallWrite ==
    \E buffer \in SampleBuffers : \E ans \in BulkOutAnswers(Len(buffer)) :
        Invoke("write", buffer, write(mode, buffer, ans))

NextStream ==
    \/ CallRead
    \/ CallWrite
    \/ CallReturn

\* read and write called on their own in any Mode, with any answer of the
\* transport
SpecStream == InitStream /\ [][NextStream]_vars

\* C21: a read that returns Ok returns the number of bytes the transport
\* delivered, at most the length of the buffer; the first n bytes of the
\* buffer are the bytes delivered and the others are as they were; the read
\* issued one bulk transfer that asked for the whole buffer, so a smaller n is
\* a short transfer of the transport. A write that returns Ok returns the count
\* the transport reported.
C21_StreamCounts ==
    /\ (call.fn = "read" /\ call.res = Ok) =>
          LET n == call.ret.count
              x == call.io[1]
          IN /\ Len(call.io) = 1 /\ x.xfer = "bulk_in" /\ x.len = Len(call.arg)
             /\ ~x.ans.err
             /\ n = Len(x.ans.data)
             /\ n <= Len(call.arg)
             /\ Len(call.ret.samples) = Len(call.arg)
             /\ \A i \in 1..Len(call.arg) :
                   call.ret.samples[i] = IF i <= n THEN x.ans.data[i] ELSE call.arg[i]
    /\ (call.fn = "write" /\ call.res = Ok) =>
          /\ Len(call.io) = 1 /\ call.io[1].xfer = "bulk_out"
          /\ call.io[1].data = call.arg
          /\ ~call.io[1].ans.err
          /\ call.ret.count = call.io[1].ans.count
          /\ call.ret.samples = call.arg
    /\ (call.fn \in {"read", "write"} /\ call.res # Ok) =>
          call.ret.samples = call.arg

\* a read into 512 bytes to which the transport delivered 511: the last byte
\* of the buffer is the caller's
C21_Witness ==
    /\ call.fn = "read" /\ call.res = Ok /\ Len(call.arg) = 512
    /\ call.ret.count = 511
    /\ call.io[1].ans.data = Pattern(511, 100)
    /\ call.ret.samples[511] = (100 + 511) % 256
    /\ call.ret.samples[512] = call.arg[512]
    /\ call.arg[512] # (100 + 512) % 256

\* -------------------------------------- a transfer and the calling thread
\* ControlIn, ControlOut and RequestBuffer carry no timeout, and block_on is
\* given the transfer alone: no timer is armed for a transfer
NoTimeout == [armed |-> FALSE]

\* a transfer handed to the transport and not completed yet
Submitted(kind, req, value, index, n, data) ==
    [len |-> n, req |-> req, value |-> value, index |-> index, xfer |-> kind,
     data |-> data, timeout |-> NoTimeout]

\* fn is called with arg and hands transfer x to the transport: block_on
\* parks the calling thread until the transport completes the transfer
Block(fn, arg, x) ==
    /\ call.fn = "none"
    /\ call' = [fn |-> fn, arg |-> arg, waiting |-> x]
    /\ UNCHANGED driver

\* the calling thread is parked in block_on
Blocked == call.fn # "none" /\ "waiting" \in DOMAIN call

SubmitReadControl ==
    \E N \in 1..MaxN :
        Block("read_control", <<N>>,
              Submitted("control_in", BoardIdRead, 0, 0, N, <<>>))

SubmitWriteControl ==
    \E n \in 0..MaxPayload :
        Block("write_control", <<n>>,
              Submitted("control_out", SetFreq, 0, 0, n, [i \in 1..n |-> 0]))

\* read past ensure_mode and the length check
SubmitRead ==
    /\ mode = "Receive"
    /\ \E buffer \in SampleBuffers :
        /\ Len(buffer) % 512 = 0
        /\ Block("read", buffer,
                 Submitted("bulk_in", EndpointIn, 0, 0, Len(buffer), <<>>))

\* write past ensure_mode and the length check
SubmitWrite ==
    /\ mode = "Transmit"
    /\ \E buffer \in SampleBuffers :
        /\ Len(buffer) % 512 = 0
        /\ Block("write", buffer,
                 Submitted("bulk_out", EndpointOut, 0, 0, Len(buffer), buffer))

\* what the blocked call does once the transport has answered
Completions ==
    CASE call.fn = "read_control" ->
            {read_control(call.arg[1], BoardIdRead, 0, 0, ans) :
                ans \in ControlInAnswers(call.arg[1])}
      [] call.fn = "write_control" ->
            {write_control(SetFreq, 0, 0, [i \in 1..call.arg[1] |-> 0], ans) :
                ans \in ControlOutAnswers(call.arg[1])}
      [] call.fn = "read" ->
            {read(mode, call.arg, ans) : ans \in BulkInAnswers(Len(call.arg))}
      [] OTHER ->
            {write(mode, call.arg, ans) : ans \in BulkOutAnswers(Len(call.arg))}

\* the transport completes the transfer, block_on returns and the call ends
Complete ==
    /\ Blocked
    /\ \E d \in Completions :
        call' = [io |-> d.io, res |-> d.res, fn |-> call.fn, ret |-> d.ret,
                 arg |-> call.arg]
    /\ UNCHANGED driver

\* the caller takes the result of a call that has returned
TakeResult == ~Blocked /\ CallReturn

NextBlock ==
    \/ SubmitReadControl
    \/ SubmitWriteControl
    \/ SubmitRead
    \/ SubmitWrite
    \/ Complete
    \/ TakeResult

\* read_control, write_control, read and write with the wait for the
\* transport. The caller goes on whenever it can; when the transport completes
\* a transfer is up to the device, and nothing in the driver ends the wait.
SpecBlock == InitStream /\ [][NextBlock]_vars /\ WF_vars(TakeResult)

\* C22: every control transfer and every bulk transfer returns to its caller,
\* with data or with an error of the transport: no transfer blocks the calling
\* thread for ever.
C22_TransfersReturn == Blocked ~> ~Blocked

\* ------------------------------------------------ open_first / open_bus
HACKRF_USB_VID == 7504
HACKRF_ONE_USB_PID == 24713

\* largest number of devices enumerated
MaxDevices == 2

\* the device addresses on the bus
Addresses == {1, 2}

\* A device as nusb::list_devices reports it, with what opening it would do:
\* succeed, fail in DeviceInfo::open, or fail in claim_interface(0).
DeviceInfos ==
    {d \in [vendor_id : {HACKRF_USB_VID, HACKRF_USB_VID + 1},
             product_id : {HACKRF_ONE_USB_PID, HACKRF_ONE_USB_PID + 1},
             bus_number : {1},
             device_address : Addresses,
             device_version : {ResetMinBcd},
             opens : {"ok", "open_err", "claim_err"}] :
        d.vendor_id = HACKRF_USB_VID \/ d.product_id = HACKRF_ONE_USB_PID}

\* nusb::list_devices(): an error, or the devices in the order enumerated
Enumerations ==
    {[err |-> TRUE, devices |-> <<>>]}
        \cup {[err |-> FALSE, devices |-> l] : l \in SeqsUpTo(DeviceInfos, MaxDevices)}

\* the HackRf that open builds
Handle(info) ==
    [mode |-> ModeAtOpen, version |-> from_bcd(info.device_version),
     timeout_nanos |-> DEFAULT_TIMEOUT_NANOS, device |-> info]

\* open(info): info.open()?, claim_interface(0)?, Ok(HackRf{..}); both errors
\* are std::io::Error, converted to Error::Io by `?`
open(info) ==
    IF info.opens = "ok" THEN Did(<<>>, Ok, Handle(info))
                         ELSE Did(<<>>, Err("Io"), <<>>)

\* the vendor and product id tests of open_first, open_bus and scan
IsHackRfOne(info) ==
    info.vendor_id = HACKRF_USB_VID /\ info.product_id = HACKRF_ONE_USB_PID

\* the loop of open_first from the i-th device on: a device that matches is
\* opened, a failed open goes on to the next device
RECURSIVE OpenFirstFrom(_, _)
OpenFirstFrom(devices, i) ==
    IF i > Len(devices) THEN Did(<<>>, Err("NotFound"), <<>>)
    ELSE IF IsHackRfOne(devices[i]) /\ open(devices[i]).res = Ok
         THEN open(devices[i])
         ELSE OpenFirstFrom(devices, i + 1)

\* open_first(): `?` on list_devices, then the loop
open_first(list) ==
    IF list.err THEN Did(<<>>, Err("Io"), <<>>)
    ELSE OpenFirstFrom(list.devices, 1)

\* the loop of open_bus from the i-th device on: the first device that
\* matches is opened and the result of open is returned as it is
RECURSIVE OpenBusFrom(_, _, _, _)
OpenBusFrom(devices, i, bus_number, address) ==
    IF i > Len(devices) THEN Did(<<>>, Err("NotFound"), <<>>)
    ELSE IF /\ IsHackRfOne(devices[i])
            /\ devices[i].bus_number = bus_number
            /\ devices[i].device_address = address
         THEN open(devices[i])
         ELSE OpenBusFrom(devices, i + 1, bus_number, address)

\* open_bus(bus_number, address)
open_bus(list, bus_number, address) ==
    IF list.err THEN Did(<<>>, Err("Io"), <<>>)
    ELSE OpenBusFrom(list.devices, 1, bus_number, address)

CallOpenFirst ==
    /\ call.fn = "none"
    /\ \E list \in Enumerations :
        Invoke("open_first", [list |-> list], open_first(list))

CallOpenBus ==
    /\ call.fn = "none"
    /\ \E list \in Enumerations, address \in Addresses :
        Invoke("open_bus", [bus_number |-> 1, list |-> list,
                            address |-> address],
               open_bus(list, 1, address))

NextOpen ==
    \/ CallOpenFirst
    \/ CallOpenBus
    \/ CallReturn

\* open_first and open_bus called with any enumeration of devices
SpecOpen == Init /\ [][NextOpen]_vars

\* the devices of an enumeration that open_first / open_bus would open
Matching(c) ==
    {i \in DOMAIN c.arg.list.devices :
        /\ IsHackRfOne(c.arg.list.devices[i])
        /\ c.fn = "open_bus" =>
              /\ c.arg.list.devices[i].bus_number = c.arg.bus_number
              /\ c.arg.list.devices[i].device_address = c.arg.address}

\* C23: when the devices are enumerated, open_first and open_bus fail with
\* NotFound and with no other error, both when no device matches and when a
\* device matches but cannot be opened or its interface 0 cannot be claimed.
C23_OpenNotFound ==
    (call.fn \in {"open_first", "open_bus"} /\ ~call.arg.list.err) =>
        /\ Matching(call) = {} => call.res = Err("NotFound")
        /\ call.res.kind \in {"Ok", "NotFound"}

\* no start_* has won the compare_exchange since open
NeverStarted == wins = 0

\* C24 as stated: after open Mode is Idle and the timeout is 500 ms, and until
\* a start_* has won the compare_exchange every read, write, stop_rx and
\* stop_tx fails with WrongMode.
C24_WrongModeUntilStart ==
    [][/\ NeverStarted => mode = "Idle"
       /\ timeout_nanos = 500000000
       /\ \A t \in Threads :
             (Returns(t) /\ NeverStarted /\ op'[t] \in StreamOps \cup StopOps) =>
                 res'[t].kind = "WrongMode"]_vars

\* C24: after open Mode is Idle and the timeout is 500 ms. Until a start_* has
\* won the compare_exchange, read and write fail with WrongMode and issue no
\* transfer; stop_rx and stop_tx fail as well, with WrongMode when the Off
\* request they send first succeeded and with the error of that request when
\* it failed. Mode stays Idle.
C24_FailUntilStart ==
    [][/\ NeverStarted => mode = "Idle"
       /\ timeout_nanos = 500000000
       /\ \A t \in Threads :
             (Returns(t) /\ NeverStarted) =>
                 /\ op'[t] \in StreamOps =>
                       /\ res'[t] = WrongMode(TargetMode(op'[t]), "Idle")
                       /\ io'[t] = <<>>
                 /\ op'[t] \in StopOps =>
                       /\ Len(io'[t]) = 1
                       /\ io'[t][1] = [OffRequest EXCEPT !.out = io'[t][1].out]
                       /\ IF io'[t][1].out = "ok"
                            THEN res'[t].kind = "WrongMode" /\ res'[t].actual = "Idle"
                            ELSE res'[t] = Err("Transfer")
                 /\ op'[t] \in StreamOps \cup StopOps => mode' = "Idle"]_vars

\* straight after open a stop_rx whose Off request failed returned the
\* transport's error, and a write was refused with WrongMode
C24_Witness ==
    /\ NeverStarted /\ mode = "Idle" /\ timeout_nanos = 500000000
    /\ \E t, u \in Threads :
        /\ pc[t] = "done" /\ op[t] = "stop_rx" /\ res[t] = Err("Transfer")
        /\ pc[u] = "done" /\ op[u] = "write"
        /\ res[u] = WrongMode("Transmit", "Idle")

\* the request of each gain setter
GainRequest(fn) ==
    CASE fn = "set_lna_gain" -> SetLnaGain
      [] fn = "set_vga_gain" -> SetVgaGain
      [] fn = "set_txvga_gain" -> SetTxvgaGain

\* C25: a gain setter called with an accepted gain issues one one-byte control
\* read of its request with value 0 and with index the largest multiple of 8
\* not above the gain (set_lna_gain), the largest multiple of 2 not above the
\* gain, which is the gain (set_vga_gain), or the gain (set_txvga_gain). It
\* returns Ok only if the transfer delivered exactly one byte and the byte is
\* not 0.
C25_GainRequest ==
    call.fn \in GainSetters =>
        LET gain == call.arg[1] IN
        /\ GainInRange(call.fn, gain) =>
              /\ Len(call.io) = 1
              /\ call.io[1].xfer = "control_in"
              /\ call.io[1].req = GainRequest(call.fn)
              /\ call.io[1].value = 0
              /\ call.io[1].len = 1
              /\ LET index == call.io[1].index IN
                 CASE call.fn = "set_lna_gain" ->
                        index % 8 = 0 /\ index <= gain /\ gain < index + 8
                   [] call.fn = "set_vga_gain" ->
                        index % 2 = 0 /\ index <= gain /\ gain < index + 2
                            /\ index = gain
                   [] OTHER -> index = gain
        /\ call.res = Ok =>
              /\ GainInRange(call.fn, gain)
              /\ ~call.io[1].ans.err
              /\ Len(call.io[1].ans.data) = 1
              /\ call.io[1].ans.data[1] # 0

\* set_lna_gain(37) asked for index 32 and returned Ok on the byte 1
C25_Witness ==
    /\ call.fn = "set_lna_gain" /\ call.arg = <<37>>
    /\ call.io[1].index = 32 /\ call.io[1].value = 0
    /\ call.io[1].ans.data = <<1>>
    /\ call.res = Ok

\* C26: set_baseband_filter_bandwidth(hz) issues one control write of
\* BasebandFilterBandwidthSet (opcode 7) with an empty payload, value the low
\* 16 bits of hz and index the high 16 bits: index * 2^16 + value = hz.
C26_BandwidthSplit ==
    call.fn = "set_baseband_filter_bandwidth" =>
        /\ Len(call.io) = 1
        /\ call.io[1].xfer = "control_out"
        /\ call.io[1].req = 7
        /\ call.io[1].data = <<>> /\ call.io[1].len = 0
        /\ call.io[1].value \in 0..65535
        /\ call.io[1].index \in 0..65535
        /\ call.io[1].value = call.arg[1] % 65536
        /\ call.io[1].index * 65536 + call.io[1].value = call.arg[1]

\* set_baseband_filter_bandwidth(1_750_000) sent value 46064 and index 26
C26_Witness ==
    /\ call.fn = "set_baseband_filter_bandwidth" /\ call.arg = <<1750000>>
    /\ call.io[1].value = 46064 /\ call.io[1].index = 26
    /\ call.res = Ok

\* the number of bytes the transport reports for transfer x
Delivered(x) == IF x.xfer = "control_in" THEN Len(x.ans.data) ELSE x.ans.count

\* C27 as stated: every control transfer of board_id, version and the setters
\* goes through read_control or write_control, so its length is validated: a
\* transfer that moved another number of bytes than asked for makes the
\* operation return TransferTruncated with the two counts.
C27_LengthValidated ==
    call.fn # "none" =>
        \A i \in DOMAIN call.io :
            (~call.io[i].ans.err /\ Delivered(call.io[i]) # call.io[i].len) =>
                call.res = TransferTruncated(Delivered(call.io[i]), call.io[i].len)

\* C27: every control transfer of board_id and of the setters goes through
\* read_control or write_control, so its length is validated: a transfer that
\* moved another number of bytes than asked for makes the operation return
\* TransferTruncated with the two counts. version alone hands its transfer to
\* the transport itself: it asks for 64 bytes and returns Ok with the text of
\* what it received, however short (the bytes themselves when they are ASCII).
C27_LengthValidatedButVersion ==
    /\ call.fn \notin {"none", "version"} =>
          \A i \in DOMAIN call.io :
              (~call.io[i].ans.err /\ Delivered(call.io[i]) # call.io[i].len) =>
                  call.res = TransferTruncated(Delivered(call.io[i]), call.io[i].len)
    /\ call.fn = "version" =>
          /\ Len(call.io) = 1
          /\ call.io[1].xfer = "control_in" /\ call.io[1].req = 15
          /\ call.io[1].len = 64
          /\ ~call.io[1].ans.err =>
                /\ call.res = Ok
                /\ Len(call.ret) >= Len(call.io[1].ans.data)
                /\ (\A i \in DOMAIN call.io[1].ans.data : call.io[1].ans.data[i] < 128)
                      => call.ret = call.io[1].ans.data

\* set_freq whose 8-byte payload was reported written as 7 bytes returned
\* TransferTruncated{actual: 7, expected: 8}
C27_Witness ==
    /\ call.fn = "set_freq"
    /\ Len(call.io) = 1 /\ ~call.io[1].ans.err /\ call.io[1].ans.count = 7
    /\ call.res = TransferTruncated(7, 8)

\* C28: check_api_version(min) returns Ok exactly when the device version is
\* at least min in the lexicographic order of (major, minor, sub-minor), and
\* NoApi{device, min} otherwise; it issues no transfer and changes nothing in
\* the driver.
C28_CheckApiVersion ==
    [][(call.fn = "none" /\ call'.fn = "check_api_version") =>
          /\ call'.res = IF VersionAtLeast(version, call'.arg)
                         THEN Ok ELSE NoApi(version, call'.arg)
          /\ call'.io = <<>>
          /\ UNCHANGED driver]_vars

\* a device of version 1.0.2 passes the minimum 0.255.255 and fails 1.0.3
C28_Witness ==
    /\ call.fn = "check_api_version" /\ version = <<1, 0, 2>>
    /\ \/ call.arg = <<0, 255, 255>> /\ call.res = Ok
       \/ call.arg = <<1, 0, 3>> /\ call.res = NoApi(<<1, 0, 2>>, <<1, 0, 3>>)

\* C29 as stated: a start_rx / start_tx that returns an error leaves Mode as it
\* was before the call: as it finds it when its compare_exchange fails, and
\* Idle, the value its compare_exchange replaced, when it fails later, in
\* apply_config or in the SetTransceiverMode request.
C29_FailedStartKeepsMode ==
    [][\A t \in Threads :
          (Returns(t) /\ pc'[t] = "done" /\ op'[t] \in StartOps /\ res'[t] # Ok) =>
              IF pc[t] = "idle" THEN mode' = mode ELSE mode' = "Idle"]_vars

\* Any number of threads calling start_* with the default Configs and stop_*
\* in any interleaving, the transport answering every transfer with success.
NextOk ==
    \E t \in Threads :
        \/ StartCas(t, "start_rx", rx_default)
        \/ StartCas(t, "start_tx", tx_default)
        \/ ConfigStep(t, "ok")
        \/ SetMode(t, "ok")
        \/ \E o \in StopOps : StopCall(t, o)
        \/ StopOff(t, "ok")
        \/ StopCas(t)
        \/ Return(t)

SpecOk == Init /\ [][NextOk]_vars

\* no start_* and no stop_* is in progress
Quiet == \A t \in Threads : pc[t] \notin {"config", "setmode", "off", "stopcas"}

\* C30 as stated: whenever no start_* / stop_* is in progress, the state of
\* the device's transceiver agrees with Mode: Off in Idle, Receive in Receive,
\* Transmit in Transmit.
C30_DeviceAgreesWithMode == Quiet => xcvr = TransceiverFor(mode)

\* thread t issues the bulk transfer of its read / write in this step
BulkStep(t) == pc[t] = "bulk" /\ pc'[t] # "bulk"

\* C31 as stated: a bulk transfer is issued on the RX endpoint only while Mode
\* is Receive and on the TX endpoint only while Mode is Transmit, also when
\* another thread stops the stream between the Mode check of the read / write
\* and its bulk transfer.
C31_BulkOnlyInMode ==
    [][\A t \in Threads :
          BulkStep(t) =>
              /\ op[t] = "read" => mode = "Receive"
              /\ op[t] = "write" => mode = "Transmit"]_vars

\* the error a control transfer answered with `out` makes its caller return
ErrorOf(out) == IF out = "err" THEN Err("Transfer") ELSE Err("TransferTruncated")

\* C32: a start_* that has returned issued the requests of apply_config in
\* their order up to the first step that failed and nothing after it: a
\* refused gain (Argument) or a failed transfer ends the call with that error,
\* the requests before it were answered with success, and no later
\* configuration request and no SetTransceiverMode request was issued.
C32_ConfigStopsAtFailure ==
    \A t \in Threads :
        (op[t] \in StartOps /\ pc[t] = "done") =>
            /\ \A i \in 1..Len(io[t]) :
                 /\ io[t][i].req = StartOrder[i]
                 /\ io[t][i].out # "ok" =>
                       /\ i = Len(io[t])
                       /\ res[t] = ErrorOf(io[t][i].out)
            /\ res[t].kind = "Argument" =>
                 /\ Len(io[t]) < 3
                 /\ \A i \in 1..Len(io[t]) : io[t][i].out = "ok"
            /\ res[t] # Ok =>
                 \A i \in 1..Len(io[t]) :
                     io[t][i].req = SetTransceiverMode => io[t][i].out # "ok"
            /\ res[t].kind \in {"Transfer", "TransferTruncated"} =>
                 /\ io[t] # <<>>
                 /\ io[t][Len(io[t])].out # "ok"

\* a start_rx whose Config has an odd vga_db returned Argument after the one
\* request of set_lna_gain, and a start_tx returned the error of the
\* SampleRateSet transfer after seven requests
C32_Witness ==
    \/ \E t \in Threads :
          /\ op[t] = "start_rx" /\ pc[t] = "done" /\ res[t].kind = "Argument"
          /\ Len(io[t]) = 1 /\ io[t][1].req = SetLnaGain /\ calls = 1
    \/ \E t \in Threads :
          /\ op[t] = "start_tx" /\ pc[t] = "done"
          /\ res[t] = Err("TransferTruncated")
          /\ Len(io[t]) = 7 /\ io[t][7].req = SampleRateSet /\ calls = 1

\* thread t's start_* wins the CAS in this step
StartWins(t) == StartCasStep(t) /\ pc'[t] = "config"

\* thread t's stop_* returns Ok in this step
StopOk(t) == StopCasStep(t) /\ res'[t] = Ok

\* C33: CAS-winning starts and stops that return Ok strictly alternate. A
\* start_* wins the CAS only when every earlier winning start has been
\* followed by a stop_* that returned Ok, and a stop_rx (stop_tx) returns Ok
\* only when the last winning start is a start_rx (start_tx) that no stop has
\* been matched to yet.
C33_StartsAndStopsAlternate ==
    [][\A t \in Threads :
          /\ StartWins(t) => started = "none" /\ started' = TargetMode(op'[t])
          /\ StopOk(t) => started = TargetMode(op[t]) /\ started' = "none"
          /\ (res'[t] = Ok /\ pc'[t] = "done" /\ pc[t] # "done" /\ op[t] \in StopOps)
                => StopOk(t)]_vars

\* a second start has won the CAS after a stop of the first returned Ok
C33_Witness ==
    /\ started = "Transmit"
    /\ calls = 3
    /\ \E t \in Threads : op[t] = "stop_rx" /\ pc[t] = "done" /\ res[t] = Ok
    /\ \E t \in Threads : op[t] = "start_tx" /\ pc[t] = "config"

\* ------------------------------------------------ the HackRfOne adapter
\* the streamers of the adapter and the calls of a streamer
Streamers == {"RxStreamer", "TxStreamer"}
StreamerCalls == {"activate_at", "deactivate_at"}

\* the direction a streamer streams in
Direction(who) == IF who = "RxStreamer" THEN "Receive" ELSE "Transmit"

\* the Config activate_at locks: HackRfInner.rx_config for the RxStreamer,
\* tx_config for the TxStreamer, as the setters of the adapter left them
StreamerConfig(who) ==
    IF who = "RxStreamer" THEN streamer.rx_config ELSE streamer.tx_config

\* the call of a streamer has returned r; Mode is m at the return
StreamerReturned(r, m) ==
    [streamer EXCEPT !.at = IF r.kind = "Panic" THEN "panicked" ELSE "idle",
                     !.log = Append(@, [mode |-> m, res |-> r,
                                        who |-> streamer.who,
                                        fn |-> streamer.fn])]

\* activate_at / deactivate_at is called on a streamer, up to its call into
\* the driver: activate_at locks the Config of its direction,
\* RxStreamer::deactivate_at takes the stream out of self.stream and panics
\* when there is none; the TxStreamer has no stream
StreamerCall(who, fn) ==
    /\ streamer.at = "idle"
    /\ pc[1] = "idle"
    /\ calls < MaxCalls
    /\ \E s \in {[streamer EXCEPT !.who = who, !.fn = fn]} :
        IF who = "RxStreamer" /\ fn = "deactivate_at" /\ ~streamer.stream
          THEN streamer' = [s EXCEPT !.at = "panicked",
                                     !.log = Append(@, [mode |-> mode,
                                                        res |-> Err("Panic"),
                                                        who |-> who, fn |-> fn])]
          ELSE streamer' = [s EXCEPT !.at = "call",
                                     !.stream = IF who = "RxStreamer"
                                                      /\ fn = "deactivate_at"
                                                  THEN FALSE ELSE @]
    /\ UNCHANGED <<mode, claimed, xcvr, pc, op, cfg, len, step, io, res, samples,
                   calls, faults, wins, modeReqs, armed, call, version,
                   timeout_nanos, started>>

\* the call into the driver: start_rx of both activate_at, stop_rx of
\* RxStreamer::deactivate_at, stop_tx of TxStreamer::deactivate_at
StreamerDriverCall ==
    /\ streamer.at = "call"
    /\ CASE streamer.fn = "activate_at" ->
              StartCas(1, "start_rx", StreamerConfig(streamer.who))
         [] streamer.fn = "deactivate_at" /\ streamer.who = "RxStreamer" ->
              StopCall(1, "stop_rx")
         [] OTHER ->
              StopCall(1, "stop_tx")

\* the driver has returned: an error is returned with `?`; after start_rx
\* RxStreamer::activate_at opens the stream, which succeeds or fails (`ok`)
StreamerReturn(ok) ==
    /\ streamer.at = "call"
    /\ pc[1] = "done"
    /\ \E s \in {StreamerReturned(
                    IF res[1].kind = "Ok" /\ streamer.who = "RxStreamer"
                          /\ streamer.fn = "activate_at" /\ ~ok
                      THEN Err("Transfer") ELSE res[1], mode)} :
         streamer' = [s EXCEPT !.stream =
                         IF res[1].kind = "Ok" /\ streamer.who = "RxStreamer"
                               /\ streamer.fn = "activate_at"
                           THEN ok ELSE @]
    /\ UNCHANGED <<mode, claimed, xcvr, pc, op, cfg, len, step, io, res, samples,
                   calls, faults, wins, modeReqs, armed, call, version,
                   timeout_nanos, started>>

\* ---- the setters of the adapter that change rx_config / tx_config
\* Direction::Rx and Direction::Tx
Directions == {"Rx", "Tx"}

\* most setters of the adapter an application makes
MaxSets == 2

\* the Config of direction d
ConfigOf(d) == IF d = "Rx" THEN streamer.rx_config ELSE streamer.tx_config

\* a setter of the adapter has stored c as the Config of direction d and
\* returned r
ConfigSet(d, c, r) ==
    [streamer EXCEPT !.rx_config = IF d = "Rx" THEN c ELSE @,
                     !.tx_config = IF d = "Tx" THEN c ELSE @,
                     !.set = r, !.sets = @ + 1]

\* the application calls a setter of the adapter: no call of a streamer is
\* in progress
SetterCalled ==
    /\ streamer.at = "idle"
    /\ pc[1] = "idle"
    /\ streamer.sets < MaxSets

\* Range::contains(value) of a Range of the one item Step(lo, hi, by), value
\* a whole number: the first multiple of the step at or below value is tried
StepContains(lo, hi, by, value) ==
    /\ value >= lo
    /\ LET v == lo + ((value - lo) \div by) * by IN v <= hi /\ v = value

\* Range::contains(value) of a Range of the one item Interval(a, b)
IntervalContains(a, b, value) == a <= value /\ value <= b

\* gain_element_range(direction, 0, "IF").contains(gain)
IfGainInRange(d, gain) ==
    IF d = "Tx" THEN StepContains(0, 47, 1, gain) ELSE StepContains(0, 40, 8, gain)

\* 7_270_000_000, the upper end of component_frequency_range
FrequencyMax == <<128, 101, 83, 177, 1, 0, 0, 0>>

\* component_frequency_range(direction, 0, "TUNER").contains(frequency)
FrequencyInRange(frequency) ==
    frequency >= 0 /\ ~Less(FrequencyMax, ToBytes(frequency, 8))

\* HackRfOne::with_config(direction, |c| c.vga_db = vga): the closure runs on
\* the locked Config of the direction
WithConfig(d, vga) ==
    /\ SetterCalled
    /\ streamer' = ConfigSet(d, [ConfigOf(d) EXCEPT !.vga_db = vga], "Ok")
    /\ UNCHANGED <<mode, claimed, xcvr, pc, op, cfg, len, step, io, res, samples,
                   calls, faults, wins, modeReqs, armed, call, version,
                   timeout_nanos, started>>

\* set_gain_element(direction, channel, name, gain), which set_gain calls with
\* the name "IF": the range of the direction, then lna_db of rx_config; the
\* Tx arm is todo!()
SetGainElement(d, channel, name, gain) ==
    /\ SetterCalled
    /\ streamer' =
         CASE channel # 0 -> ConfigSet(d, ConfigOf(d), "ValueError")
           [] channel = 0 /\ ~(IfGainInRange(d, gain) /\ name = "IF") ->
                ConfigSet(d, ConfigOf(d), "OutOfRange")
           [] channel = 0 /\ IfGainInRange(d, gain) /\ name = "IF" /\ d = "Tx" ->
                [ConfigSet(d, ConfigOf(d), "Panic") EXCEPT !.at = "panicked"]
           [] OTHER -> ConfigSet(d, [ConfigOf(d) EXCEPT !.lna_db = gain], "Ok")
    /\ UNCHANGED <<mode, claimed, xcvr, pc, op, cfg, len, step, io, res, samples,
                   calls, faults, wins, modeReqs, armed, call, version,
                   timeout_nanos, started>>

\* set_sample_rate(direction, channel, rate): the rate and the divider 1 go
\* into the Config of the direction
SetSampleRate(d, channel, rate) ==
    /\ SetterCalled
    /\ streamer' =
         IF channel = 0 /\ IntervalContains(1000000, 20000000, rate)
           THEN ConfigSet(d, [ConfigOf(d) EXCEPT !.sample_rate_hz = rate,
                                                 !.sample_rate_div = 1], "Ok")
           ELSE ConfigSet(d, ConfigOf(d), "ValueError")
    /\ UNCHANGED <<mode, claimed, xcvr, pc, op, cfg, len, step, io, res, samples,
                   calls, faults, wins, modeReqs, armed, call, version,
                   timeout_nanos, started>>

\* set_component_frequency(direction, channel, name, frequency), which
\* set_frequency calls with the name "TUNER": the frequency goes into the
\* Config of the direction, then HackRf::set_freq is called and waits for its
\* SetFreq request
SetComponentFrequency(d, channel, name, frequency) ==
    /\ SetterCalled
    /\ IF channel = 0 /\ FrequencyInRange(frequency) /\ name = "TUNER"
         THEN /\ Enter(1)
              /\ streamer' = [ConfigSet(d, [ConfigOf(d) EXCEPT
                                               !.frequency_hz = frequency], "none")
                                EXCEPT !.at = "setter"]
              /\ Goto(1, "set_freq", "setfreq")
              /\ io' = [io EXCEPT ![1] = <<>>]
         ELSE /\ streamer' = ConfigSet(d, ConfigOf(d), "ValueError")
              /\ UNCHANGED <<pc, op, io, res, calls>>
    /\ UNCHANGED <<mode, claimed, xcvr, cfg, len, step, samples, faults, wins,
                   modeReqs, armed, call, version, timeout_nanos, started>>

\* HackRf::set_freq: the transport completes the SetFreq request (8 bytes) of
\* thread t with `out`, write_control returns
SetFreqStep(t, out) ==
    /\ pc[t] = "setfreq"
    /\ Answer("control_out", 8, out)
    /\ io' = [io EXCEPT ![t] = <<Xfer("control_out", SetFreq, 0, 0, 8, out)>>]
    /\ Finish(t, op[t], ControlResult(out))
    /\ UNCHANGED <<mode, claimed, xcvr, calls, wins, modeReqs, armed, len, samples,
                   call, version, timeout_nanos, started, streamer>>

\* set_component_frequency returns what set_freq returned
SetterReturn ==
    /\ streamer.at = "setter"
    /\ pc[1] = "done"
    /\ streamer' = [streamer EXCEPT !.at = "idle", !.set = res[1].kind]
    /\ UNCHANGED <<mode, claimed, xcvr, pc, op, cfg, len, step, io, res, samples,
                   calls, faults, wins, modeReqs, armed, call, version,
                   timeout_nanos, started>>

\* the values the application hands to the setters: a valid and an odd VGA
\* gain, an LNA gain on and off the step of 8 dB, a sample rate in and below
\* the range, a frequency in and below the range
SetterGains == {16, 17}
SetterRates == {999999, 8000000}
SetterFrequencies == {-1, 100000000}

\* One application thread using the two streamers and the setters of one
\* HackRfOne, the transport answering every transfer with success.
NextAdapter ==
    \/ \E who \in Streamers, fn \in StreamerCalls : StreamerCall(who, fn)
    \/ StreamerDriverCall
    \/ streamer.at = "call" /\ ConfigStep(1, "ok")
    \/ streamer.at = "call" /\ SetMode(1, "ok")
    \/ streamer.at = "call" /\ StopOff(1, "ok")
    \/ streamer.at = "call" /\ StopCas(1)
    \/ \E ok \in BOOLEAN : StreamerReturn(ok)
    \/ streamer.at = "idle" /\ Return(1)
    \/ \E d \in Directions, vga \in {24, 25} : WithConfig(d, vga)
    \/ \E d \in Directions, channel \in {0, 1}, name \in {"IF", "RF"},
          gain \in SetterGains : SetGainElement(d, channel, name, gain)
    \/ \E d \in Directions, channel \in {0, 1}, rate \in SetterRates :
          SetSampleRate(d, channel, rate)
    \/ \E d \in Directions, channel \in {0, 1}, name \in {"TUNER", "LO"},
          frequency \in SetterFrequencies :
              SetComponentFrequency(d, channel, name, frequency)
    \/ SetFreqStep(1, "ok")
    \/ SetterReturn

\* HackRfOne::open: the driver opened and the adapter built on it
InitAdapter ==
    /\ Opened
    /\ streamer = NoStreamer
    /\ call = NoCall
    /\ version = from_bcd(ResetMinBcd)

SpecAdapter == InitAdapter /\ [][NextAdapter]_vars

\* C34 as stated: an activate_at that returned Ok has put Mode into the
\* direction of its streamer, and a deactivate_at that follows it on the same
\* streamer returns Ok and leaves Mode Idle.
C34_ActivateDeactivate ==
    \A i \in 1..Len(streamer.log) :
        /\ (streamer.log[i].fn = "activate_at" /\ streamer.log[i].res = Ok) =>
              streamer.log[i].mode = Direction(streamer.log[i].who)
        /\ ( /\ i > 1
             /\ streamer.log[i].fn = "deactivate_at"
             /\ streamer.log[i - 1].fn = "activate_at"
             /\ streamer.log[i - 1].who = streamer.log[i].who
             /\ streamer.log[i - 1].res = Ok ) =>
              /\ streamer.log[i].res = Ok
              /\ streamer.log[i].mode = "Idle"

\* -------------------------------------------- leaving any state of rest
\* A state in which no call is in progress: Mode and the state of the device
\* are any of those that calls made earlier can have left behind, a start_*
\* that won the compare_exchange and then failed included.
InitRecover ==
    /\ mode \in Modes
    /\ claimed = TRUE
    /\ xcvr \in {TransceiverOff, TransceiverReceive, TransceiverTransmit}
    /\ pc = [t \in Threads |-> "idle"]
    /\ op = [t \in Threads |-> "none"]
    /\ cfg = [t \in Threads |-> NoConfig]
    /\ len = [t \in Threads |-> 0]
    /\ step = [t \in Threads |-> 0]
    /\ io = [t \in Threads |-> <<>>]
    /\ res = [t \in Threads |-> NoRes]
    /\ faults \in 0..MaxFaults
    /\ calls = IF mode = "Idle" /\ xcvr = TransceiverOff /\ faults = 0 THEN 0 ELSE 1
    /\ wins = IF mode = "Idle" THEN 0 ELSE 1
    /\ armed \in {"none", mode} \ {"Idle"}
    /\ armed = mode => xcvr \in {TransceiverOff, TransceiverFor(mode)}
    /\ modeReqs = IF armed = mode \/ (mode = "Idle" /\ xcvr # TransceiverOff)
                    THEN 1 ELSE 0
    /\ started = IF mode = "Idle" THEN "none" ELSE mode
    /\ streamer = NoAdapter
    /\ samples = [t \in Threads |-> 0]
    /\ call = NoCall
    /\ version = from_bcd(ResetMinBcd)
    /\ timeout_nanos = DEFAULT_TIMEOUT_NANOS

\* the stop_* of the direction Mode is in
StopOf(m) == IF m = "Receive" THEN "stop_rx" ELSE "stop_tx"

\* One caller, the transport answering every transfer with success: the
\* caller stops the direction Mode is in and, in Idle, starts a direction
\* with one of the default Configs.
NextRecover ==
    \/ mode # "Idle" /\ StopCall(1, StopOf(mode))
    \/ StopOff(1, "ok")
    \/ StopCas(1)
    \/ mode = "Idle" /\ \E o \in StartOps, c \in {rx_default, tx_default} :
                            StartCas(1, o, c)
    \/ ConfigStep(1, "ok")
    \/ SetMode(1, "ok")
    \/ Return(1)

SpecRecover == InitRecover /\ [][NextRecover]_vars

\* C35: no state is a dead end. From every state in which no call is in
\* progress, with a transport that succeeds, the stop_* of the direction Mode
\* is in returns Ok and leaves Mode Idle, and a start_rx / start_tx with a
\* valid Config made in Idle returns Ok with Mode and the device in its
\* direction; no call of the two fails or panics.
C35_NoDeadEnd ==
    /\ pc[1] # "panicked"
    /\ pc[1] = "done" =>
          /\ res[1] = Ok
          /\ op[1] \in StopOps => mode = "Idle" /\ xcvr = TransceiverOff
          /\ op[1] = "start_rx" => mode = "Receive" /\ xcvr = TransceiverReceive
          /\ op[1] = "start_tx" => mode = "Transmit" /\ xcvr = TransceiverTransmit

\* a stop_* left Mode Idle and the start_tx made after it has returned Ok
C35_Witness ==
    /\ pc[1] = "done" /\ op[1] = "start_tx" /\ res[1] = Ok
    /\ mode = "Transmit" /\ calls = 3 /\ armed = "Transmit"
    /\ wins = 1 /\ modeReqs = 1

\* ------------------------------- setters and getters in every Mode
\* set_amp_enable refusing to act while a stream is running
set_amp_enable_idle_only(enable, ans) ==
    IF mode # "Idle" THEN Did(<<>>, WrongMode("Idle", mode), <<>>)
    ELSE write_control(AmpEnable, IF enable THEN 1 ELSE 0, 0, <<>>, ans)

\* set_amp_enable(enable)
set_amp_enable(enable, ans) ==
    write_control(AmpEnable, IF enable THEN 1 ELSE 0, 0, <<>>, ans)

\* set_antenna_enable(value)
set_antenna_enable(value, ans) ==
    write_control(AntennaEnable, IF value THEN 1 ELSE 0, 0, <<>>, ans)

\* device_version(): the version decoded by open, no transfer
device_version(v) == Did(<<>>, Ok, v)

CallSetAmpEnable ==
    \E enable \in BOOLEAN, ans \in ControlOutAnswers(0) :
        Invoke("set_amp_enable", enable, set_amp_enable(enable, ans))

CallSetAntennaEnable ==
    \E value \in BOOLEAN, ans \in ControlOutAnswers(0) :
        Invoke("set_antenna_enable", value, set_antenna_enable(value, ans))

CallDeviceVersion == Invoke("device_version", <<>>, device_version(version))

\* the parameter setters and the getters
SettersAndGetters ==
    {"set_freq", "set_amp_enable", "set_antenna_enable",
     "set_baseband_filter_bandwidth", "set_sample_rate", "set_lna_gain",
     "set_vga_gain", "set_txvga_gain", "board_id", "version", "device_version"}

\* Any setter or getter called with any input and any answer of the
\* transport, in Idle, while receiving and while transmitting.
NextSetters ==
    \/ CallSetFreq
    \/ CallSetAmpEnable
    \/ CallSetAntennaEnable
    \/ CallSetBasebandFilterBandwidth
    \/ CallSetSampleRate
    \/ CallSetLnaGain
    \/ CallSetVgaGain
    \/ CallSetTxvgaGain
    \/ CallBoardId
    \/ CallVersion
    \/ CallDeviceVersion
    \/ CallReturn

SpecSetters == InitStream /\ [][NextSetters]_vars

\* C36: a setter or getter is accepted in Idle, Receive and Transmit alike
\* and leaves Mode and the timeout as they are, whether it succeeds, fails or
\* panics: it never returns WrongMode, and it issues its transfer unless it
\* refuses its argument or needs none.
C36_SettersKeepMode ==
    [][(call.fn = "none" /\ call'.fn \in SettersAndGetters) =>
          /\ mode' = mode
          /\ timeout_nanos' = timeout_nanos
          /\ call'.res.kind # "WrongMode"
          /\ call'.io = <<>> =>
                \/ call'.res.kind = "Argument"
                \/ call'.fn = "device_version"]_vars

\* set_amp_enable has sent its request and returned Ok while Mode is Receive
C36_Witness ==
    /\ mode = "Receive" /\ timeout_nanos = DEFAULT_TIMEOUT_NANOS
    /\ call.fn = "set_amp_enable" /\ call.arg = TRUE /\ call.res = Ok
    /\ Len(call.io) = 1

\* x * k does not fit the width of x
MulOverflows(x, k) ==
    MulSmall(x \o <<0, 0, 0, 0>>, k) # MulSmall(x, k) \o <<0, 0, 0, 0>>

\* x - y is below zero
SubUnderflows(x, y) == Less(x, y)

\* C37: freq_params computes, for every frequency, without overflow of its
\* product and without underflow of its difference; when the megahertz field
\* is not 0xFFFFFFFF the hertz field is below 1 000 000 and megahertz *
\* 1 000 000 + hertz is the frequency; a hertz field of 1 000 000 or more
\* comes with a megahertz field of 0xFFFFFFFF only.
C37_FreqParamsExact ==
    call.fn = "freq_params" =>
        LET r == call.ret
            mhz == U64From(MhzField(r))
            hz == U64From(HzField(r))
        IN /\ ~MulOverflows(mhz, MHZ)
           /\ ~SubUnderflows(call.arg, MulSmall(mhz, MHZ))
           /\ MhzField(r) # U32Max =>
                 /\ Less(hz, ToBytes(MHZ, 8))
                 /\ Add(MulSmall(mhz, MHZ), hz) = call.arg
           /\ ~Less(hz, ToBytes(MHZ, 8)) => MhzField(r) = U32Max

\* 2^32 * 10^6 - 1, the largest frequency that is encoded exactly: megahertz
\* 0xFFFFFFFF, hertz 999 999
C37_Witness ==
    /\ call.fn = "freq_params"
    /\ call.arg = Sub(MhzLimit, ToBytes(1, 8))
    /\ call.ret = U32Max \o ToBytes(999999, 4)

\* ------------------------------------------------- versions from BCD
\* the largest u16
U16Max == 65535

\* the Ord derived for UsbVersion: the fields compared in their order
cmp(v, w) ==
    CASE v[1] # w[1] -> IF v[1] < w[1] THEN "Less" ELSE "Greater"
      [] v[2] # w[2] -> IF v[2] < w[2] THEN "Less" ELSE "Greater"
      [] v[3] # w[3] -> IF v[3] < w[3] THEN "Less" ELSE "Greater"
      [] OTHER -> "Equal"

\* the digits a valid BCD value is made of in the values compared
BcdDigits == {0, 1, 2, 9}

\* valid BCD values: every nibble a decimal digit
BcdValues ==
    {j * 4096 + k * 256 + m * 16 + n : j \in {0, 1, 9}, k \in BcdDigits,
                                       m \in BcdDigits, n \in {0, 9}}

CallFromBcd ==
    /\ call.fn = "none"
    /\ \E raw \in 0..U16Max :
          Invoke("from_bcd", raw, Did(<<>>, Ok, from_bcd(raw)))

\* the versions decoded from two BCD values compared, by the derived Ord and
\* by the keys of check_api_version
CallCmp ==
    /\ call.fn = "none"
    /\ \E a \in BcdValues, b \in BcdValues :
          Invoke("cmp", <<a, b>>,
                 Did(<<>>, Ok, [ord |-> cmp(from_bcd(a), from_bcd(b)),
                                key |-> <<version_to_u32(from_bcd(a)),
                                          version_to_u32(from_bcd(b))>>]))

NextBcd == CallFromBcd \/ CallCmp \/ CallReturn

SpecBcd == Init /\ [][NextBcd]_vars

\* the number the four decimal digits of a valid BCD value spell: JK.M.N
Denoted(raw) ==
    (raw \div 4096) * 1000 + ((raw \div 256) % 16) * 100
        + ((raw \div 16) % 16) * 10 + (raw % 16)

\* C38: from_bcd(0xJKMN) is the version (10 * J + K).M.N for every 16-bit
\* value; 10 * J and the sum fit a u8, so nothing is lost in the cast or the
\* addition; 0x0200 is 2.0.0 and 0x0110 is 1.1.0. The versions decoded from
\* two valid BCD values compare, by the derived order and by the keys of
\* check_api_version, as the versions the values denote.
C38_FromBcd ==
    /\ call.fn = "from_bcd" =>
          LET raw == call.arg
              v == call.ret
          IN /\ v[3] = raw % 16
             /\ v[2] = (raw \div 16) % 16
             /\ v[1] = 10 * (raw \div 4096) + ((raw \div 256) % 16)
             /\ 10 * (raw \div 4096) <= 255
             /\ v[1] <= 255
             /\ raw = 512 => v = <<2, 0, 0>>
             /\ raw = 272 => v = <<1, 1, 0>>
    /\ call.fn = "cmp" =>
          LET a == call.arg[1]
              b == call.arg[2]
          IN /\ call.ret.ord = "Less" <=> Denoted(a) < Denoted(b)
             /\ call.ret.ord = "Equal" <=> Denoted(a) = Denoted(b)
             /\ call.ret.key[1] < call.ret.key[2] <=> Denoted(a) < Denoted(b)
             /\ call.ret.key[1] = call.ret.key[2] <=> a = b

\* 0xFFFF is decoded as 165.15.15
C38_Witness ==
    /\ call.fn = "from_bcd" /\ call.arg = 65535 /\ call.ret = <<165, 15, 15>>

====
